---- MODULE Spec2Model ----
(***************************************************************************)
(* Model of the ECC conveyor engine (scripts/ecc): patch ownership         *)
(* enforcement (diff.js), plan validation (validate.js), task ordering and *)
(* execution (exec.js), the run lifecycle driven by the CLI (ecc.js), the  *)
(* verify runner (verify.js), run ids and run creation (id.js, run.js),    *)
(* the worktree of a run (git.js), the bridge to the helper (kernel.js),   *)
(* project initialisation (config.js, lock.js, catalog.js) and the files   *)
(* of two runs that share a machine (project.js, run.js, git.js).          *)
(*                                                                         *)
(* Strings whose characters matter (paths, prefixes, diff headers) are     *)
(* sequences of one-character strings.                                     *)
(***************************************************************************)
EXTENDS Naturals, Integers, Sequences, FiniteSets, TLC

VARIABLES
  patchIn,    \* SpecPatch: the arguments of applyPatch and the worktree's files
  patchOut,   \* SpecPatch: the result of applyPatch
  planIn,     \* SpecPlan: the plan given to validatePlan
  planOut,    \* SpecPlan: the error list validatePlan returned
  runJson,            \* Spec: run.json
  planJson,           \* Spec: plan.json
  applyJson,          \* Spec: apply/applied.json
  verifySummaryJson,  \* Spec: verify/summary.json
  reportMd,           \* Spec: report.md
  worktree,           \* Spec: the run's git worktree and branch
  proc,               \* Spec: the CLI command that is running or ran last
  generated,          \* Spec: the task ids execRun passed to provider.generatePatch, in order
  verifyIn,   \* SpecVerify: the arguments of runVerify, the manifest, the helper and verify/summary.json before
  verifyOut,  \* SpecVerify: what runVerify ran, returned and left in verify/summary.json
  runsDir,    \* SpecCreate: the run directories under .ecc/runs
  creators,   \* SpecCreate: the plan commands that are creating a run
  wtIn,       \* SpecWorktree: the repoRoot and worktreePath given to ensureWorktree
  wtFs,       \* SpecWorktree: the run's branch and what is at worktreePath
  wtOut,      \* SpecWorktree: the calls of ensureWorktree so far and what the last one did
  bridgeIn,   \* SpecKernel: ECC_KERNEL, where a helper binary is and how it behaves
  bridgeOut,  \* SpecKernel: the cache of getKernel, the lookups and spawns made, the last outcome of runKernel
  eccDir,     \* SpecInit: the project's .ecc/ecc.json, registry lock and .gitignore
  initOut,    \* SpecInit: the invocations of init so far and what the last one asked for and did
  disk,       \* SpecTwoRuns: the directories, git worktrees and files two runs share
  runners     \* SpecTwoRuns: the two runs and how far the commands of each have come

vars ==
  <<patchIn, patchOut, planIn, planOut, runJson, planJson, applyJson, verifySummaryJson, reportMd, worktree,
    proc, generated, verifyIn, verifyOut, runsDir, creators, wtIn, wtFs, wtOut, bridgeIn, bridgeOut, eccDir, initOut,
    disk, runners>>
patchVars == <<patchIn, patchOut>>
planVars == <<planIn, planOut>>
runVars == <<runJson, planJson, applyJson, verifySummaryJson, reportMd, worktree, proc, generated>>
verifyVars == <<verifyIn, verifyOut>>
\* the variables of the single-call specifications, which the run lifecycle leaves alone
createVars == <<runsDir, creators>>
worktreeVars == <<wtIn, wtFs, wtOut>>
kernelVars == <<bridgeIn, bridgeOut>>
initVars == <<eccDir, initOut>>
twoRunsVars == <<disk, runners>>
callVars == <<patchVars, planVars, verifyVars, createVars, worktreeVars, kernelVars, initVars, twoRunsVars>>

----------------------------------------------------------------------------
(* Character-sequence helpers (JavaScript String methods).                 *)

StartsWith(s, p) == Len(p) <= Len(s) /\ SubSeq(s, 1, Len(p)) = p

EndsWith(s, p) == Len(p) <= Len(s) /\ SubSeq(s, Len(s) - Len(p) + 1, Len(s)) = p

Includes(s, sub) ==
  \E i \in 1..(Len(s) + 1) : i + Len(sub) - 1 <= Len(s) /\ SubSeq(s, i, i + Len(sub) - 1) = sub

\* s.slice(0, -1)
SliceDropLast(s) == IF Len(s) = 0 THEN s ELSE SubSeq(s, 1, Len(s) - 1)

\* s.replace(/\\/g, '/')
ReplaceBackslash(s) == [i \in 1..Len(s) |-> IF s[i] = "\\" THEN "/" ELSE s[i]]

\* s.trim() is empty
IsBlank(s) == \A i \in 1..Len(s) : s[i] = " "

RECURSIVE SplitSlash(_)
\* s.split('/')
SplitSlash(s) ==
  IF \A i \in 1..Len(s) : s[i] # "/" THEN <<s>>
  ELSE LET k == CHOOSE i \in 1..Len(s) : s[i] = "/" /\ \A j \in 1..(i - 1) : s[j] # "/"
       IN  <<SubSeq(s, 1, k - 1)>> \o SplitSlash(SubSeq(s, k + 1, Len(s)))

RECURSIVE JoinSlash(_)
\* segs.join('/')
JoinSlash(segs) ==
  IF Len(segs) = 0 THEN <<>>
  ELSE IF Len(segs) = 1 THEN segs[1]
  ELSE segs[1] \o <<"/">> \o JoinSlash(Tail(segs))

Dot == <<".">>
DotDot == <<".", ".">>
Slash == <<"/">>
DevNull == <<"/", "d", "e", "v", "/", "n", "u", "l", "l">>

Letters == {"a", "b", "c", "d", "e", "l", "m", "n", "r", "s", "t", "u", "v", "x", "A", "D", "E", "M", "R"}

----------------------------------------------------------------------------
(* path.posix.normalize, as used by normalizeRepoPath.                     *)

RECURSIVE normalizeString(_, _, _)
\* Folds the segments of a path: "" and "." are skipped, ".." removes the
\* last kept segment unless there is none or it is itself "..".
normalizeString(segs, res, allowAboveRoot) ==
  IF Len(segs) = 0 THEN res
  ELSE LET seg == Head(segs)
           res2 == IF seg = <<>> \/ seg = Dot THEN res
                   ELSE IF seg = DotDot
                        THEN IF Len(res) > 0 /\ res[Len(res)] # DotDot
                             THEN SubSeq(res, 1, Len(res) - 1)
                             ELSE IF allowAboveRoot THEN Append(res, DotDot) ELSE res
                        ELSE Append(res, seg)
       IN  normalizeString(Tail(segs), res2, allowAboveRoot)

posixNormalize(p) ==
  IF Len(p) = 0 THEN Dot
  ELSE LET isAbsolute == p[1] = "/"
           trailingSeparator == p[Len(p)] = "/"
           body == JoinSlash(normalizeString(SplitSlash(p), <<>>, ~isAbsolute))
       IN  IF Len(body) = 0
           THEN (IF isAbsolute THEN Slash ELSE IF trailingSeparator THEN <<".", "/">> ELSE Dot)
           ELSE LET withSep == IF trailingSeparator THEN body \o Slash ELSE body
                IN  IF isAbsolute THEN Slash \o withSep ELSE withSep

\* /^[A-Za-z]:\//.test(posix)
IsDriveLetterPath(posix) ==
  Len(posix) >= 3 /\ posix[1] \in Letters /\ posix[2] = ":" /\ posix[3] = "/"

\* Returns [valid, path]; valid = FALSE stands for the null result.
normalizeRepoPath(p) ==
  LET posix == ReplaceBackslash(p)
  IN  IF StartsWith(posix, Slash) \/ IsDriveLetterPath(posix)
      THEN [valid |-> FALSE, path |-> <<>>]
      ELSE LET norm == posixNormalize(posix)
           IN  IF norm = Dot \/ StartsWith(norm, <<".", ".", "/">>) \/ Includes(norm, <<"/", ".", ".", "/">>)
               THEN [valid |-> FALSE, path |-> <<>>]
               ELSE [valid |-> TRUE, path |-> norm]

----------------------------------------------------------------------------
(* Patch text.  A patch is a sequence of lines; only two things about a    *)
(* line matter to diff.js: whether it starts with "diff --git " (then      *)
(* `text` holds the characters after that prefix) and whether it is        *)
(* whitespace only.  The remaining lines carry what `git apply` reads.     *)
(*   [kind |-> "diffgit", text]        diff --git <text>                   *)
(*   [kind |-> "ext", ...]             new file / deleted file / rename    *)
(*   [kind |-> "minusplus", ...]       --- <old> and +++ <new> with hunks  *)
(*   [kind |-> "blank"] , [kind |-> "junk"]                                *)

NoPath == <<>>

DiffGitLine(a, b) ==
  [kind |-> "diffgit", text |-> <<"a", "/">> \o a \o <<" ", "b", "/">> \o b, op |-> "none", old |-> NoPath, new |-> NoPath]
ExtLine(op, old, new) == [kind |-> "ext", text |-> <<>>, op |-> op, old |-> old, new |-> new]
MinusPlusLine(op, old, new) == [kind |-> "minusplus", text |-> <<>>, op |-> op, old |-> old, new |-> new]
BlankLine == [kind |-> "blank", text |-> <<>>, op |-> "none", old |-> NoPath, new |-> NoPath]
JunkLine == [kind |-> "junk", text |-> <<"x">>, op |-> "none", old |-> NoPath, new |-> NoPath]

\* The sections a provider can emit, rendered to lines.
GitModify(p) == <<DiffGitLine(p, p), MinusPlusLine("modify", p, p)>>
GitCreate(p) == <<DiffGitLine(p, p), ExtLine("create", NoPath, p), MinusPlusLine("create", NoPath, p)>>
GitDelete(p) == <<DiffGitLine(p, p), ExtLine("delete", p, NoPath), MinusPlusLine("delete", p, NoPath)>>
\* a deletion whose header names the null device on the new side
GitDeleteDevNull(p) == <<DiffGitLine(p, DevNull), MinusPlusLine("delete", p, NoPath)>>
GitRename(from, to) == <<DiffGitLine(from, to), ExtLine("rename", from, to)>>
\* a section in traditional unified-diff form: no "diff --git" header at all
TradModify(p) == <<MinusPlusLine("modify", p, p)>>
TradCreate(p) == <<MinusPlusLine("create", NoPath, p)>>

\* patchText.trim() is empty
PatchIsBlank(lines) == \A i \in 1..Len(lines) : lines[i].kind = "blank"

----------------------------------------------------------------------------
(* diff.js: touchedFilesFromUnifiedDiff                                    *)

\* line.match(/^diff --git a\/(.+?) b\/(.+)$/) on the text after "diff --git ":
\* the lazy group takes the shortest non-empty run that is followed by " b/"
\* and at least one more character.
HeaderSplitPoints(text) ==
  {k \in 1..Len(text) : k + 5 <= Len(text) /\ SubSeq(text, k + 3, k + 5) = <<" ", "b", "/">> /\ k + 6 <= Len(text)}

HeaderMatch(text) ==
  IF Len(text) >= 2 /\ SubSeq(text, 1, 2) = <<"a", "/">> /\ HeaderSplitPoints(text) # {}
  THEN LET k == CHOOSE k \in HeaderSplitPoints(text) : \A j \in HeaderSplitPoints(text) : k <= j
       IN  [matched |-> TRUE, aPath |-> SubSeq(text, 3, k + 2), bPath |-> SubSeq(text, k + 6, Len(text))]
  ELSE [matched |-> FALSE, aPath |-> <<>>, bPath |-> <<>>]

RECURSIVE touchedLoop(_, _, _)
touchedLoop(lines, files, seen) ==
  IF Len(lines) = 0 THEN files
  ELSE LET line == Head(lines)
           m == HeaderMatch(line.text)
           file == IF m.bPath = DevNull THEN m.aPath ELSE m.bPath
           normalized == normalizeRepoPath(file)
       IN  IF line.kind # "diffgit" \/ ~m.matched
           THEN touchedLoop(Tail(lines), files, seen)
           ELSE IF ~normalized.valid
           THEN touchedLoop(Tail(lines), Append(files, [path |-> file, invalid |-> TRUE]), seen)
           ELSE IF normalized.path \in seen
           THEN touchedLoop(Tail(lines), files, seen)
           ELSE touchedLoop(Tail(lines), Append(files, [path |-> normalized.path, invalid |-> FALSE]),
                            seen \cup {normalized.path})

touchedFilesFromUnifiedDiff(patchText) == touchedLoop(patchText, <<>>, {})

----------------------------------------------------------------------------
(* diff.js: ensureOwned                                                    *)

\* .map(p => String(p || '').replace(/\\/g, '/')).map(p => p.endsWith('/') ? p : `${p}/`)
\* (.filter(Boolean) drops nothing: every mapped prefix is non-empty)
NormalizePrefix(p) ==
  LET q == ReplaceBackslash(p) IN IF EndsWith(q, Slash) THEN q ELSE q \o Slash

AllowedNormalized(allowedPathPrefixes) ==
  [i \in 1..Len(allowedPathPrefixes) |-> NormalizePrefix(allowedPathPrefixes[i])]

PrefixMatches_Loose(path, prefix) == StartsWith(path, SliceDropLast(prefix))

\* f.path === prefix.slice(0, -1) || f.path.startsWith(prefix)
PrefixMatches(path, prefix) == path = SliceDropLast(prefix) \/ StartsWith(path, prefix)

violationsLoop_FirstOnly(touchedFiles, allowed, violations) ==
  LET bad == {k \in 1..Len(touchedFiles) :
                touchedFiles[k].invalid \/ ~\E i \in 1..Len(allowed) : PrefixMatches(touchedFiles[k].path, allowed[i])}
      first == CHOOSE k \in bad : \A j \in bad : k <= j
  IN  IF bad = {} THEN violations
      ELSE Append(violations, [why |-> IF touchedFiles[first].invalid THEN "invalid" ELSE "unauthorized",
                               path |-> touchedFiles[first].path])

RECURSIVE violationsLoop(_, _, _)
violationsLoop(touchedFiles, allowed, violations) ==
  IF Len(touchedFiles) = 0 THEN violations
  ELSE LET f == Head(touchedFiles)
           ok == \E i \in 1..Len(allowed) : PrefixMatches(f.path, allowed[i])
       IN  IF f.invalid
           THEN violationsLoop(Tail(touchedFiles), allowed, Append(violations, [why |-> "invalid", path |-> f.path]))
           ELSE IF ~ok
           THEN violationsLoop(Tail(touchedFiles), allowed, Append(violations, [why |-> "unauthorized", path |-> f.path]))
           ELSE violationsLoop(Tail(touchedFiles), allowed, violations)

ensureOwned_DenyAll(touchedFiles, allowedPathPrefixes) ==
  LET allowed == AllowedNormalized(allowedPathPrefixes)
      violations == violationsLoop(touchedFiles, allowed, <<>>)
  IN  IF Len(violations) > 0
      THEN [threw |-> TRUE, error |-> "ownership", violations |-> violations]
      ELSE [threw |-> FALSE, error |-> "none", violations |-> <<>>]

\* Returns [threw, error, violations].
ensureOwned(touchedFiles, allowedPathPrefixes) ==
  LET allowed == AllowedNormalized(allowedPathPrefixes)
      violations == violationsLoop(touchedFiles, allowed, <<>>)
  IN  IF Len(allowed) = 0
      THEN [threw |-> TRUE, error |-> "emptyPrefixes", violations |-> <<>>]
      ELSE IF Len(violations) > 0
      THEN [threw |-> TRUE, error |-> "ownership", violations |-> violations]
      ELSE [threw |-> FALSE, error |-> "none", violations |-> <<>>]

----------------------------------------------------------------------------
(* `git apply` as invoked by applyPatch (the tool itself is external).     *)
(* A path git accepts has no empty, "." or ".." component; every other     *)
(* path makes both `git apply --check` and `git apply` fail.  The file a   *)
(* section changes is read from its ---/+++ and rename lines.              *)

GitPathOk(p) ==
  /\ Len(p) > 0
  /\ LET segs == SplitSlash(p)
     IN  \A i \in 1..Len(segs) : segs[i] # <<>> /\ segs[i] # Dot /\ segs[i] # DotDot

RECURSIVE gitApplyLoop(_, _)
\* acc = [ok, files, mutated]
gitApplyLoop(lines, acc) ==
  IF Len(lines) = 0 \/ ~acc.ok THEN acc
  ELSE LET l == Head(lines)
           isOp == (l.kind = "minusplus") \/ (l.kind = "ext" /\ l.op = "rename")
           next ==
             IF ~isOp THEN acc
             ELSE IF l.op = "modify"
             THEN IF GitPathOk(l.new) /\ l.new \in acc.files
                  THEN [acc EXCEPT !.mutated = @ \cup {l.new}]
                  ELSE [acc EXCEPT !.ok = FALSE]
             ELSE IF l.op = "create"
             THEN IF GitPathOk(l.new) /\ l.new \notin acc.files
                  THEN [acc EXCEPT !.files = @ \cup {l.new}, !.mutated = @ \cup {l.new}]
                  ELSE [acc EXCEPT !.ok = FALSE]
             ELSE IF l.op = "delete"
             THEN IF GitPathOk(l.old) /\ l.old \in acc.files
                  THEN [acc EXCEPT !.files = @ \ {l.old}, !.mutated = @ \cup {l.old}]
                  ELSE [acc EXCEPT !.ok = FALSE]
             ELSE IF GitPathOk(l.old) /\ GitPathOk(l.new) /\ l.old \in acc.files /\ l.new \notin acc.files
                  THEN [acc EXCEPT !.files = (@ \ {l.old}) \cup {l.new}, !.mutated = @ \cup {l.old, l.new}]
                  ELSE [acc EXCEPT !.ok = FALSE]
       IN  gitApplyLoop(Tail(lines), next)

\* The outcome of applying the whole patch to a worktree holding `files`;
\* hunksMatch says whether the hunks fit the content of the files there.
GitApplyEffect(files, patchText, hunksMatch) ==
  LET r == gitApplyLoop(patchText, [ok |-> TRUE, files |-> files, mutated |-> {}])
  IN  IF r.ok /\ hunksMatch THEN r ELSE [ok |-> FALSE, files |-> files, mutated |-> {}]

----------------------------------------------------------------------------
(* diff.js: applyPatch, with the kernel helper off (runKernel returns      *)
(* null under ECC_KERNEL=node or when no helper binary is found).          *)
(* Result: outcome "ok"/"throw", the error class, the touched files, the   *)
(* violations, the git invocations made in order, the files of the         *)
(* worktree afterwards and the paths git changed.                          *)

PathsOf(touched) == [i \in 1..Len(touched) |-> touched[i].path]

ApplyResultRec(outcome, error, touchedFiles, violations, gitCalls, files, mutated) ==
  [outcome |-> outcome, error |-> error, touchedFiles |-> touchedFiles, violations |-> violations,
   gitCalls |-> gitCalls, files |-> files, mutated |-> mutated]

applyPatch_NoOwnership(files, patchText, allowedPathPrefixes, hunksMatch, applyOk) ==
  LET eff == GitApplyEffect(files, patchText, hunksMatch)
  IN  IF eff.ok
      THEN ApplyResultRec("ok", "none", PathsOf(touchedFilesFromUnifiedDiff(patchText)), <<>>, <<"check", "apply">>, eff.files, eff.mutated)
      ELSE ApplyResultRec("throw", "check", <<>>, <<>>, <<"check">>, files, {})

applyPatch_OwnershipFirst(files, patchText, allowedPathPrefixes, hunksMatch, applyOk) ==
  LET touched == touchedFilesFromUnifiedDiff(patchText)
      owned == ensureOwned(touched, allowedPathPrefixes)
      eff == GitApplyEffect(files, patchText, hunksMatch)
  IN  IF owned.threw
      THEN ApplyResultRec("throw", owned.error, <<>>, owned.violations, <<>>, files, {})
      ELSE IF PatchIsBlank(patchText)
      THEN ApplyResultRec("ok", "none", <<>>, <<>>, <<>>, files, {})
      ELSE IF Len(touched) = 0
      THEN ApplyResultRec("throw", "malformed", <<>>, <<>>, <<>>, files, {})
      ELSE IF ~eff.ok
      THEN ApplyResultRec("throw", "check", <<>>, <<>>, <<"check">>, files, {})
      ELSE IF ~applyOk
      THEN ApplyResultRec("throw", "apply", <<>>, <<>>, <<"check", "apply">>, files, {})
      ELSE ApplyResultRec("ok", "none", PathsOf(touched), <<>>, <<"check", "apply">>, eff.files, eff.mutated)

applyPatch(files, patchText, allowedPathPrefixes, hunksMatch, applyOk) ==
  LET touched == touchedFilesFromUnifiedDiff(patchText)
      owned == ensureOwned(touched, allowedPathPrefixes)
      eff == GitApplyEffect(files, patchText, hunksMatch)
  IN  IF PatchIsBlank(patchText)
      THEN ApplyResultRec("ok", "none", <<>>, <<>>, <<>>, files, {})
      ELSE IF Len(touched) = 0
      THEN ApplyResultRec("throw", "malformed", <<>>, <<>>, <<>>, files, {})
      ELSE IF owned.threw
      THEN ApplyResultRec("throw", owned.error, <<>>, owned.violations, <<>>, files, {})
      ELSE IF ~eff.ok
      THEN ApplyResultRec("throw", "check", <<>>, <<>>, <<"check">>, files, {})
      ELSE IF ~applyOk
      THEN ApplyResultRec("throw", "apply", <<>>, <<>>, <<"check", "apply">>, files, {})
      ELSE ApplyResultRec("ok", "none", PathsOf(touched), <<>>, <<"check", "apply">>, eff.files, eff.mutated)

----------------------------------------------------------------------------
(* Inputs of the patch specification.                                      *)

MaxPathLen == 2
MaxPrefixLen == 2
MaxPrefixes == 1
MaxSections == 1

RECURSIVE StringsUpTo(_, _)
\* all character sequences over `alphabet` of length <= n
StringsUpTo(alphabet, n) ==
  IF n = 0 THEN {<<>>}
  ELSE LET shorter == StringsUpTo(alphabet, n - 1)
       IN  shorter \cup {Append(w, c) : w \in shorter, c \in alphabet}

RECURSIVE SeqsUpTo(_, _)
\* all sequences over the set S of length <= n
SeqsUpTo(S, n) ==
  IF n = 0 THEN {<<>>}
  ELSE LET shorter == SeqsUpTo(S, n - 1)
       IN  shorter \cup {Append(w, x) : w \in shorter, x \in S}

RECURSIVE Flatten(_)
Flatten(sections) == IF Len(sections) = 0 THEN <<>> ELSE Head(sections) \o Flatten(Tail(sections))

Range(f) == {f[i] : i \in DOMAIN f}

P_src == <<"s", "r", "c">>
P_srcSlash == <<"s", "r", "c", "/">>
P_srcSlashSlash == <<"s", "r", "c", "/", "/">>
P_srcBackslash == <<"s", "r", "c", "\\">>
P_src_a_txt == <<"s", "r", "c", "/", "a", ".", "t", "x", "t">>
P_src_sub_b_txt == <<"s", "r", "c", "/", "s", "u", "b", "/", "b", ".", "t", "x", "t">>
P_srcx_a_txt == <<"s", "r", "c", "x", "/", "a", ".", "t", "x", "t">>
P_README_md == <<"R", "E", "A", "D", "M", "E", ".", "m", "d">>
P_NEW_md == <<"N", "E", "W", ".", "m", "d">>
P_src_base_txt == <<"s", "r", "c", "/", "b", "a", "s", "e", ".", "t", "x", "t">>
\* src/../src/a.txt, src/../../x, c:/s and c:\s
P_src_up_src_a_txt == <<"s", "r", "c", "/", ".", ".", "/", "s", "r", "c", "/", "a", ".", "t", "x", "t">>
P_src_up_up_x == <<"s", "r", "c", "/", ".", ".", "/", ".", ".", "/", "x">>
P_drive_s == <<"c", ":", "/", "s">>
P_driveBackslash_s == <<"c", ":", "\\", "s">>

PathAlphabet == {"s", "/", "."}
PrefixAlphabet == {"s", "/"}

HeaderPaths ==
  StringsUpTo(PathAlphabet, MaxPathLen)
  \cup {P_src, P_src_a_txt, P_src_sub_b_txt, P_srcx_a_txt, P_README_md}
  \cup {P_src_up_src_a_txt, P_src_up_up_x, P_drive_s, P_driveBackslash_s}

PrefixPool ==
  StringsUpTo(PrefixAlphabet, MaxPrefixLen) \cup {P_srcSlash, P_src, P_srcSlashSlash, P_srcBackslash}

\* lists of several prefixes, of which the first, the last or none matches
PrefixLists ==
  SeqsUpTo(PrefixPool, MaxPrefixes)
  \cup {<<P_srcSlash, <<"s">>>>, <<<<"s">>, P_srcSlash>>, <<P_src, Slash>>, <<<<"s", "/">>, <<".">>>>, <<Slash, <<"s", "/", "/">>>>}

\* Family A: one section changing one file, any header path, any prefix list.
OwnershipInputs ==
  {[patch |-> GitModify(p), allowed |-> a, files |-> {p}] : p \in HeaderPaths, a \in PrefixLists}

\* Family B: patches of several sections of every form over a worktree that
\* holds src/base.txt and README.md.
WorktreeFiles == {P_src_base_txt, P_README_md}
SectionPaths == {P_src_base_txt, P_src_a_txt, P_README_md, P_NEW_md}

SectionPool ==
  UNION {{GitModify(p), GitCreate(p), GitDelete(p), GitDeleteDevNull(p), TradModify(p), TradCreate(p)} : p \in SectionPaths}
  \cup {GitRename(pq[1], pq[2]) : pq \in {x \in SectionPaths \X SectionPaths : x[1] # x[2]}}

\* c:/s, NEW.md, src/base.txt and README.md in one patch; /s named by two headers and then README.md
ManyViolationsPatch ==
  GitModify(P_drive_s) \o GitCreate(P_NEW_md) \o GitModify(P_src_base_txt) \o GitModify(P_README_md)
RepeatedInvalidPatch == GitModify(<<"/", "s">>) \o GitModify(<<"/", "s">>) \o GitModify(P_README_md)

PatchTexts ==
  {Flatten(ss) : ss \in SeqsUpTo(SectionPool, MaxSections)}
  \cup {<<BlankLine>>, <<BlankLine, BlankLine>>, <<JunkLine>>, <<BlankLine, JunkLine>>}
  \cup {GitModify(P_src_base_txt) \o s2 : s2 \in SectionPool}
  \cup {GitCreate(P_NEW_md) \o GitCreate(P_README_md), GitCreate(P_src_a_txt) \o GitDelete(P_src_a_txt)}
  \cup {ManyViolationsPatch, RepeatedInvalidPatch}

SectionInputs ==
  {[patch |-> t, allowed |-> a, files |-> WorktreeFiles] : t \in PatchTexts, a \in {<<P_srcSlash>>, <<>>}}

NoApplyResult == ApplyResultRec("none", "none", <<>>, <<>>, <<>>, {}, {})

----------------------------------------------------------------------------
(* validate.js: validatePlan.                                              *)
(* JSON values: a task id, title, prompt, kind, intent or dependsOn entry  *)
(* is a TLA+ string, ""  being the empty string and NotStr any value that  *)
(* is not a string; an allowedPathPrefixes entry is a character sequence,  *)
(* NotStrChars being a non-string entry.  dependsOn and                    *)
(* allowedPathPrefixes carry whether they are arrays: kind "array",        *)
(* "absent" (undefined) or "other" (a truthy non-array).                   *)

NotStr == "#notstring"
NotStrChars == <<"#notstring">>

AtomView(v) == [isStr |-> v # NotStr, len |-> IF v = "" \/ v = NotStr THEN 0 ELSE 1]
CharsView(v) == [isStr |-> v # NotStrChars, len |-> IF v = NotStrChars THEN 0 ELSE Len(v)]

\* pushErr(errors, path, message): the path is `$.<at>`, with the task index
\* i and the item index j where the path has them (-1 where it has none);
\* id is the task id a cycle message names.
Err(at, i, j, message) == [at |-> at, i |-> i, j |-> j, message |-> message, id |-> ""]

\* validateString(errors, path, v) with minLength = 1
validateString(errors, at, i, j, view) ==
  IF ~view.isStr THEN Append(errors, Err(at, i, j, "expected string"))
  ELSE IF view.len < 1 THEN Append(errors, Err(at, i, j, "expected string length >= 1"))
  ELSE errors

RECURSIVE validateItems(_, _, _, _, _)
validateItems(errors, at, i, views, j) ==
  IF j > Len(views) THEN errors
  ELSE validateItems(validateString(errors, at, i, j - 1, views[j]), at, i, views, j + 1)

\* validateStringArray(errors, path, v, { minItems })
validateStringArray(errors, at, i, isArray, views, minItems) ==
  IF ~isArray THEN Append(errors, Err(at, i, -1, "expected array"))
  ELSE LET e1 == IF Len(views) < minItems
                 THEN Append(errors, Err(at, i, -1, "expected array length >= n"))
                 ELSE errors
       IN  validateItems(e1, at, i, views, 1)

AtomViews(items) == [k \in 1..Len(items) |-> AtomView(items[k])]
CharsViews(items) == [k \in 1..Len(items) |-> CharsView(items[k])]

\* Array.isArray(t.dependsOn) ? t.dependsOn : []
DepsOf(t) == IF t.dependsOn.kind = "array" THEN t.dependsOn.items ELSE <<>>

DuplicateCheck_Off(errors, ids, t, i) == errors

\* if (ids.has(t.id)) pushErr(errors, `${base}.id`, 'duplicate task id')
DuplicateCheck(errors, ids, t, i) ==
  IF t.id \in ids THEN Append(errors, Err("tasks.id", i, -1, "duplicate task id")) ELSE errors

\* the body of the per-task loop, for the task at JavaScript index i
validateTask(errors, ids, t, i) ==
  IF ~t.isObj THEN Append(errors, Err("tasks", i, -1, "expected object"))
  ELSE LET e1 == validateString(errors, "tasks.id", i, -1, AtomView(t.id))
           e2 == validateString(e1, "tasks.title", i, -1, AtomView(t.title))
           e3 == IF t.kind # "patch" THEN Append(e2, Err("tasks.kind", i, -1, "expected patch")) ELSE e2
           \* t.dependsOn || []
           e4 == IF t.dependsOn.kind = "absent"
                 THEN validateStringArray(e3, "tasks.dependsOn", i, TRUE, <<>>, 0)
                 ELSE validateStringArray(e3, "tasks.dependsOn", i, t.dependsOn.kind = "array", AtomViews(t.dependsOn.items), 0)
           e5 == validateStringArray(e4, "tasks.allowedPathPrefixes", i, t.allowedPathPrefixes.kind = "array",
                                     CharsViews(t.allowedPathPrefixes.items), 1)
           e6 == validateString(e5, "tasks.prompt", i, -1, AtomView(t.prompt))
       IN  IF t.id # NotStr THEN DuplicateCheck(e6, ids, t, i) ELSE e6

RECURSIVE validateTasksLoop(_, _, _, _)
validateTasksLoop(errors, ids, tasks, k) ==
  IF k > Len(tasks) THEN errors
  ELSE LET t == tasks[k]
           ids2 == IF t.isObj /\ t.id # NotStr THEN ids \cup {t.id} ELSE ids
       IN  validateTasksLoop(validateTask(errors, ids, t, k - 1), ids2, tasks, k + 1)

\* tasksById: the keys in insertion order and, for each key, the last task
\* that carries it
HasStrId(t) == t.isObj /\ t.id # NotStr

RECURSIVE KeysInOrder(_, _)
KeysInOrder(tasks, keys) ==
  IF Len(tasks) = 0 THEN keys
  ELSE LET t == Head(tasks)
       IN  KeysInOrder(Tail(tasks),
                       IF HasStrId(t) /\ t.id \notin Range(keys) THEN Append(keys, t.id) ELSE keys)

TaskById(tasks, id) ==
  LET k == CHOOSE k \in 1..Len(tasks) :
             /\ HasStrId(tasks[k]) /\ tasks[k].id = id
             /\ \A m \in (k + 1)..Len(tasks) : ~(HasStrId(tasks[m]) /\ tasks[m].id = id)
  IN  tasks[k]

KnownIds(tasks) == {tasks[k].id : k \in {m \in 1..Len(tasks) : HasStrId(tasks[m])}}

RECURSIVE unknownDepsOfTask(_, _, _, _, _)
unknownDepsOfTask(errors, known, deps, i, j) ==
  IF j > Len(deps) THEN errors
  ELSE unknownDepsOfTask(
         IF deps[j] \notin known THEN Append(errors, Err("tasks.dependsOn", i, j - 1, "unknown task id")) ELSE errors,
         known, deps, i, j + 1)

RECURSIVE unknownDepsLoop(_, _, _)
unknownDepsLoop(errors, tasks, k) ==
  IF k > Len(tasks) THEN errors
  ELSE unknownDepsLoop(
         IF HasStrId(tasks[k]) THEN unknownDepsOfTask(errors, KnownIds(tasks), DepsOf(tasks[k]), k - 1, 1) ELSE errors,
         tasks, k + 1)

\* Cycle detection: st = [visiting, visited, errors]
RECURSIVE dfs(_, _, _)
RECURSIVE dfsDeps(_, _, _)

dfs(tasks, id, st) ==
  IF id \in st.visited THEN st
  ELSE IF id \in st.visiting
  THEN [st EXCEPT !.errors = Append(@, [Err("tasks", -1, -1, "cycle detected at task") EXCEPT !.id = id])]
  ELSE LET st1 == [st EXCEPT !.visiting = @ \cup {id}]
           st2 == IF id \in KnownIds(tasks) THEN dfsDeps(tasks, DepsOf(TaskById(tasks, id)), st1) ELSE st1
       IN  [st2 EXCEPT !.visiting = @ \ {id}, !.visited = @ \cup {id}]

dfsDeps(tasks, deps, st) ==
  IF Len(deps) = 0 THEN st ELSE dfsDeps(tasks, Tail(deps), dfs(tasks, Head(deps), st))

RECURSIVE dfsAll(_, _, _)
dfsAll(tasks, keys, st) ==
  IF Len(keys) = 0 THEN st ELSE dfsAll(tasks, Tail(keys), dfs(tasks, Head(keys), st))

validatePlan_ShortCircuit(plan) ==
  IF ~plan.isObj THEN <<Err("", -1, -1, "expected object")>>
  ELSE LET e1 == IF plan.version # 1 THEN <<Err("version", -1, -1, "expected 1")>> ELSE <<>>
           e2 == validateString(e1, "intent", -1, -1, AtomView(plan.intent))
       IN  IF ~plan.tasksIsArray THEN Append(e2, Err("tasks", -1, -1, "expected array"))
           ELSE LET e3 == IF Len(plan.tasks) < 1
                          THEN Append(e2, Err("tasks", -1, -1, "expected at least 1 task")) ELSE e2
                    e4 == validateTasksLoop(e3, {}, plan.tasks, 1)
                    e5 == IF e4 # <<>> THEN e4 ELSE unknownDepsLoop(e4, plan.tasks, 1)
                    st == dfsAll(plan.tasks, KeysInOrder(plan.tasks, <<>>),
                                 [visiting |-> {}, visited |-> {}, errors |-> e5])
                IN  st.errors

validatePlan(plan) ==
  IF ~plan.isObj THEN <<Err("", -1, -1, "expected object")>>
  ELSE LET e1 == IF plan.version # 1 THEN <<Err("version", -1, -1, "expected 1")>> ELSE <<>>
           e2 == validateString(e1, "intent", -1, -1, AtomView(plan.intent))
       IN  IF ~plan.tasksIsArray THEN Append(e2, Err("tasks", -1, -1, "expected array"))
           ELSE LET e3 == IF Len(plan.tasks) < 1
                          THEN Append(e2, Err("tasks", -1, -1, "expected at least 1 task")) ELSE e2
                    e4 == validateTasksLoop(e3, {}, plan.tasks, 1)
                    e5 == unknownDepsLoop(e4, plan.tasks, 1)
                    st == dfsAll(plan.tasks, KeysInOrder(plan.tasks, <<>>),
                                 [visiting |-> {}, visited |-> {}, errors |-> e5])
                IN  st.errors

----------------------------------------------------------------------------
(* exec.js: topoSortTasks.  Result [threw, error, out]; st carries the     *)
(* visited and visiting sets and the output list.                          *)

AllIds(tasks) == {tasks[k].id : k \in 1..Len(tasks)}

\* new Map(tasks.map(t => [t.id, t])).get(id): the last task with that id
ById(tasks, id) ==
  tasks[CHOOSE k \in 1..Len(tasks) : tasks[k].id = id /\ \A m \in (k + 1)..Len(tasks) : tasks[m].id # id]

RECURSIVE visit(_, _, _)
RECURSIVE visitDeps(_, _, _)

visit_IgnoreCycle(tasks, id, st) ==
  IF st.threw \/ id \in st.visited \/ id \in st.visiting THEN st
  ELSE IF id \notin AllIds(tasks) THEN [st EXCEPT !.threw = TRUE, !.error = "unknown dependency"]
  ELSE LET t == ById(tasks, id)
           st1 == visitDeps(tasks, DepsOf(t), [st EXCEPT !.visiting = @ \cup {id}])
       IN  IF st1.threw THEN st1
           ELSE [st1 EXCEPT !.visiting = @ \ {id}, !.visited = @ \cup {id}, !.out = Append(@, t)]

visit(tasks, id, st) ==
  IF st.threw \/ id \in st.visited THEN st
  ELSE IF id \in st.visiting THEN [st EXCEPT !.threw = TRUE, !.error = "cycle"]
  \* byId.get(id) is undefined: reading t.dependsOn throws a TypeError
  ELSE IF id \notin AllIds(tasks) THEN [st EXCEPT !.threw = TRUE, !.error = "unknown dependency"]
  ELSE LET t == ById(tasks, id)
           st1 == visitDeps(tasks, DepsOf(t), [st EXCEPT !.visiting = @ \cup {id}])
       IN  IF st1.threw THEN st1
           ELSE [st1 EXCEPT !.visiting = @ \ {id}, !.visited = @ \cup {id}, !.out = Append(@, t)]

visitDeps(tasks, deps, st) ==
  IF Len(deps) = 0 \/ st.threw THEN st ELSE visitDeps(tasks, Tail(deps), visit(tasks, Head(deps), st))

RECURSIVE visitAll(_, _, _)
visitAll(tasks, k, st) ==
  IF k > Len(tasks) \/ st.threw THEN st ELSE visitAll(tasks, k + 1, visit(tasks, tasks[k].id, st))

topoSortTasks_PlanOrder(tasks) ==
  [threw |-> FALSE, error |-> "none", visiting |-> {}, visited |-> AllIds(tasks), out |-> tasks]

topoSortTasks(tasks) ==
  visitAll(tasks, 1, [threw |-> FALSE, error |-> "none", visiting |-> {}, visited |-> {}, out |-> <<>>])

----------------------------------------------------------------------------
(* Plans given to validatePlan.                                            *)

MaxTasks == 2
MaxDeps == 1

ArrayOf(items) == [kind |-> "array", items |-> items]
AbsentField == [kind |-> "absent", items |-> <<>>]
OtherField == [kind |-> "other", items |-> <<>>]

Task(id, deps) ==
  [isObj |-> TRUE, id |-> id, title |-> "t", kind |-> "patch", dependsOn |-> deps,
   allowedPathPrefixes |-> ArrayOf(<<P_srcSlash>>), prompt |-> "p"]

IdPool == {"a", "b"}

GeneratedTasks == {Task(id, ArrayOf(deps)) : id \in IdPool, deps \in SeqsUpTo(IdPool, MaxDeps)}

\* tasks with one defect each, and tasks that reach a third id
OddTasks ==
  { [Task("a", ArrayOf(<<>>)) EXCEPT !.isObj = FALSE],
    Task("", ArrayOf(<<>>)),
    Task(NotStr, ArrayOf(<<>>)),
    [Task("a", ArrayOf(<<>>)) EXCEPT !.title = ""],
    [Task("a", ArrayOf(<<>>)) EXCEPT !.kind = "other"],
    [Task("a", ArrayOf(<<>>)) EXCEPT !.prompt = NotStr],
    [Task("a", ArrayOf(<<>>)) EXCEPT !.allowedPathPrefixes = ArrayOf(<<>>)],
    [Task("a", ArrayOf(<<>>)) EXCEPT !.allowedPathPrefixes = ArrayOf(<<<<>>>>)],
    [Task("a", ArrayOf(<<>>)) EXCEPT !.allowedPathPrefixes = OtherField],
    Task("a", AbsentField),
    Task("a", OtherField),
    Task("a", ArrayOf(<<"z">>)),
    Task("a", ArrayOf(<<"">>)),
    Task("c", ArrayOf(<<"a">>)),
    Task("c", ArrayOf(<<"c">>)) }

TaskPool == GeneratedTasks \cup OddTasks

PlanOf(tasks) == [isObj |-> TRUE, version |-> 1, intent |-> "x", tasksIsArray |-> TRUE, tasks |-> tasks]

\* dependency chains and cycles over three tasks
ThreeTaskPlans ==
  { PlanOf(<<Task("a", ArrayOf(<<"b">>)), Task("b", ArrayOf(<<"c">>)), Task("c", ArrayOf(<<"a">>))>>),
    PlanOf(<<Task("a", ArrayOf(<<"b">>)), Task("b", ArrayOf(<<"c">>)), Task("c", ArrayOf(<<>>))>>),
    PlanOf(<<Task("c", ArrayOf(<<>>)), Task("b", ArrayOf(<<"c">>)), Task("a", ArrayOf(<<"b">>))>>),
    PlanOf(<<Task("a", ArrayOf(<<>>)), Task("b", ArrayOf(<<"c">>)), Task("c", ArrayOf(<<"b">>))>>),
    PlanOf(<<Task("a", ArrayOf(<<"c">>)), Task("b", ArrayOf(<<"c">>)), Task("c", AbsentField)>>),
    PlanOf(<<Task("a", ArrayOf(<<>>)), Task("b", ArrayOf(<<"a">>)), Task("a", ArrayOf(<<"b">>))>>) }

\* the plan's own fields: sound, wrong version, empty intent, non-string intent
PlanShells ==
  { PlanOf(<<>>), [PlanOf(<<>>) EXCEPT !.version = 2], [PlanOf(<<>>) EXCEPT !.intent = ""],
    [PlanOf(<<>>) EXCEPT !.intent = NotStr] }

\* a plan with several kinds of error at once: wrong version, an entry that
\* is no object, a self-dependency and an unknown dependency
ManyErrorsPlan ==
  [PlanOf(<<[Task("a", ArrayOf(<<>>)) EXCEPT !.isObj = FALSE], Task("a", ArrayOf(<<"a", "z">>))>>)
     EXCEPT !.version = 2]

OddPlans ==
  {[PlanOf(<<>>) EXCEPT !.isObj = FALSE], [PlanOf(<<>>) EXCEPT !.tasksIsArray = FALSE], ManyErrorsPlan}
  \cup ThreeTaskPlans

----------------------------------------------------------------------------
(* The run lifecycle: run.js, plan.js, report.js, exec.js (execRun) and    *)
(* the plan, exec, verify and run commands of the CLI (ecc.js), for one    *)
(* run.  Files on disk are records with an `exists` field; timestamps are  *)
(* kept only as present or absent.                                         *)

\* run.base: the repository (or the project directory), its branch and its HEAD at creation
Base(repoRoot, branch, sha) == [repoRoot |-> repoRoot, branch |-> branch, sha |-> sha]

\* ecc.js cmdPlan / cmdRun: the base outside a git repository
ProjectBase == Base("project", "", "")

NoRun == [exists |-> FALSE, status |-> "none", endedAt |-> FALSE, worktreePath |-> "", base |-> Base("", "", "")]
NoPlanFile == [exists |-> FALSE, tasks |-> <<>>]
NoApplyFile == [exists |-> FALSE, tasks |-> <<>>, commit |-> FALSE]
NoSummary == [exists |-> FALSE, ok |-> FALSE]
NoReport ==
  [exists |-> FALSE, run |-> NoRun, plan |-> NoPlanFile, applyResult |-> NoApplyFile, verifySummary |-> NoSummary]

\* the one worktree path of the run
WtPath == "wt"

\* the worktree directory, its files, and the files at the tip of the run's branch
NoWorktree == [exists |-> FALSE, files |-> {}, tip |-> WorktreeFiles]

\* run.js: the run initRun({ ..., base }) writes
initRunFrom(base) == [exists |-> TRUE, status |-> "planned", endedAt |-> FALSE, worktreePath |-> "", base |-> base]

\* run.js: the run initRun writes in a project outside a git repository
initRun == initRunFrom(ProjectBase)

markRunEnded_NoStamp(run, status) == [run EXCEPT !.status = status]

markRunEnded_FreshBase(run, status) ==
  [run EXCEPT !.status = status, !.endedAt = TRUE, !.base = Base("repo", "main", "head")]

\* run.js: markRunEnded(run, status)
markRunEnded(run, status) == [run EXCEPT !.status = status, !.endedAt = TRUE]

\* json.js: writeJson(paths.applyJson, applyResult)
writeJson(applyResult) == [exists |-> TRUE, tasks |-> applyResult.tasks, commit |-> applyResult.commit]

\* report.js: writeReport; the report is kept as the files it was rendered from
writeReport(run, plan, applyResult, verifySummary, oldReport) ==
  IF ~run.exists THEN [threw |-> TRUE, reportMd |-> oldReport]
  ELSE [threw |-> FALSE,
        reportMd |-> [exists |-> TRUE, run |-> run, plan |-> plan, applyResult |-> applyResult,
                      verifySummary |-> verifySummary]]

\* git.js: ensureWorktree, once the git commands succeed
ensureWorktree(wt) == IF wt.exists THEN wt ELSE [wt EXCEPT !.exists = TRUE, !.files = wt.tip]

\* plan.js: renderPlanMd reads t.dependsOn.length, a TypeError when dependsOn is undefined
renderPlanMdThrows(plan) == \E k \in 1..Len(plan.tasks) : plan.tasks[k].dependsOn.kind = "absent"

\* what provider.generatePlan does: throws, or returns a plan
ProviderPlanThrows == [kind |-> "throws", plan |-> PlanOf(<<>>)]
ProviderPlan(plan) == [kind |-> "plan", plan |-> plan]

ProviderPlans ==
  { ProviderPlanThrows,
    ProviderPlan(PlanOf(<<Task("a", ArrayOf(<<>>))>>)),
    ProviderPlan(PlanOf(<<Task("b", ArrayOf(<<"a">>)), Task("a", ArrayOf(<<>>))>>)),
    ProviderPlan(PlanOf(<<Task("a", AbsentField), Task("b", ArrayOf(<<"a">>))>>)),
    ProviderPlan(PlanOf(<<Task("a", ArrayOf(<<"b">>)), Task("b", ArrayOf(<<"a">>))>>)) }

\* ecc.js cmdPlan / cmdRun: initRun, generatePlan, writeReport
planStage(base, providerPlan, applyResult, verifySummary, oldReport) ==
  LET run == initRunFrom(base)
      plan == [exists |-> TRUE, tasks |-> providerPlan.plan.tasks]
  IN  IF providerPlan.kind = "throws"
      THEN [threw |-> TRUE, error |-> "generatePlan", runJson |-> run, planJson |-> NoPlanFile, reportMd |-> oldReport]
      ELSE IF validatePlan(providerPlan.plan) # <<>>
      THEN [threw |-> TRUE, error |-> "invalid plan", runJson |-> run, planJson |-> NoPlanFile, reportMd |-> oldReport]
      ELSE IF renderPlanMdThrows(providerPlan.plan)
      THEN [threw |-> TRUE, error |-> "plan.md", runJson |-> run, planJson |-> plan, reportMd |-> oldReport]
      ELSE [threw |-> FALSE, error |-> "none", runJson |-> run, planJson |-> plan,
            reportMd |-> writeReport(run, plan, applyResult, verifySummary, oldReport).reportMd]

\* ecc.js cmdPlan / cmdRun: the base of a new run, inside a git repository or outside
PlanBases == {Base("repo", "main", "sha1"), ProjectBase}

\* what provider.generatePatch does: throws, returns no string, or returns a patch
ProviderThrows == [kind |-> "throws", patch |-> <<>>]
ProviderNonString == [kind |-> "nonstring", patch |-> <<>>]
ProviderPatch(p) == [kind |-> "patch", patch |-> p]

ProviderPatchOuts ==
  { ProviderThrows, ProviderNonString,
    ProviderPatch(<<BlankLine>>),
    ProviderPatch(<<JunkLine>>),
    ProviderPatch(GitCreate(P_src_a_txt)),
    ProviderPatch(GitModify(P_README_md)) }

\* path.join(paths.patchesDir, `${task.id}.diff`)
PatchPathOf(id) == id \o ".diff"

\* an ApplyResult entry; error "none" is an entry without the error field
Entry(id, ok, error) == [id |-> id, patchPath |-> PatchPathOf(id), ok |-> ok, error |-> error]

EmptyApplyResult == [tasks |-> <<>>, commit |-> FALSE]

Push(applyResult, entry) == [applyResult EXCEPT !.tasks = Append(@, entry)]

ExecTaskRec(threw, error, applyResult, applyJsonFile, files) ==
  [threw |-> threw, error |-> error, applyResult |-> applyResult, applyJson |-> applyJsonFile, files |-> files]

recordFailure_NoWrite(applyResult, applyJsonFile, id, error) ==
  [applyResult |-> Push(applyResult, Entry(id, FALSE, error)), applyJson |-> applyJsonFile]

\* applyResult.tasks.push({ id, patchPath, ok: false, error }); writeJson(paths.applyJson, applyResult)
recordFailure(applyResult, applyJsonFile, id, error) ==
  [applyResult |-> Push(applyResult, Entry(id, FALSE, error)),
   applyJson |-> writeJson(Push(applyResult, Entry(id, FALSE, error)))]

TaskFailed_Continue(recorded, error, files) ==
  ExecTaskRec(FALSE, "none", recorded.applyResult, recorded.applyJson, files)

\* the task failed: the recorded result, and the error that is thrown
TaskFailed(recorded, error, files) == ExecTaskRec(TRUE, error, recorded.applyResult, recorded.applyJson, files)

\* exec.js execRun: try { diff.applyPatch(...) } catch; r is what applyPatch did
applyTask(task, r, applyResult, applyJsonFile, files) ==
  IF r.outcome = "ok"
  THEN ExecTaskRec(FALSE, "none", Push(applyResult, Entry(task.id, TRUE, "none")), applyJsonFile, r.files)
  ELSE TaskFailed(recordFailure(applyResult, applyJsonFile, task.id, r.error), r.error, files)

\* exec.js execRun: the body of the task loop for one task.  The patch file
\* holds the patch with a final newline, which changes none of its lines.
execTask(task, providerOut, files, hunksMatch, applyOk, applyResult, applyJsonFile) ==
  IF providerOut.kind = "throws"
  THEN ExecTaskRec(TRUE, "provider", applyResult, applyJsonFile, files)
  ELSE IF providerOut.kind = "nonstring"
  THEN TaskFailed(recordFailure(applyResult, applyJsonFile, task.id, "nonstring"), "nonstring", files)
  ELSE applyTask(task, applyPatch(files, providerOut.patch, task.allowedPathPrefixes.items, hunksMatch, applyOk),
                 applyResult, applyJsonFile, files)

----------------------------------------------------------------------------
(* Character helpers of the slugs (id.js slugify, verify.js safeName).     *)

\* the characters of [a-z0-9] that occur in the model
LowerAlnum == {"a", "r", "u", "n", "0", "1", "2", "3", "4", "5", "6", "7", "8", "9"}

\* String.prototype.toLowerCase, on one character
ToLowerCase(c) ==
  CASE c = "A" -> "a" [] c = "R" -> "r" [] c = "U" -> "u" [] c = "S" -> "s" [] c = "T" -> "t" [] OTHER -> c

RECURSIVE TrimStart(_)
TrimStart(s) == IF Len(s) > 0 /\ Head(s) = " " THEN TrimStart(Tail(s)) ELSE s

RECURSIVE TrimEnd(_)
TrimEnd(s) == IF Len(s) > 0 /\ s[Len(s)] = " " THEN TrimEnd(SubSeq(s, 1, Len(s) - 1)) ELSE s

RECURSIVE DashRuns(_)
\* s.replace(/[^a-z0-9]+/g, '-')
DashRuns(s) ==
  IF Len(s) = 0 THEN <<>>
  ELSE IF Head(s) \in LowerAlnum THEN <<Head(s)>> \o DashRuns(Tail(s))
  ELSE IF Len(s) > 1 /\ s[2] \notin LowerAlnum THEN DashRuns(Tail(s))
  ELSE <<"-">> \o DashRuns(Tail(s))

RECURSIVE StripDashes(_)
\* s.replace(/^-+|-+$/g, '')
StripDashes(s) ==
  IF Len(s) > 0 /\ Head(s) = "-" THEN StripDashes(Tail(s))
  ELSE IF Len(s) > 0 /\ s[Len(s)] = "-" THEN StripDashes(SubSeq(s, 1, Len(s) - 1))
  ELSE s

----------------------------------------------------------------------------
(* verify.js: the verify runner.  A summary is kept without its ranAt     *)
(* timestamp and its outputPath strings, which no decision reads.          *)

\* a {name, command} entry of the verify configuration
VerifyCommand(name, command) == [name |-> name, command |-> command]

\* spawnSync's res.status: a number, or null when a signal ended the command
SpawnResult(status) == [isNumber |-> TRUE, status |-> status]
SpawnKilled == [isNumber |-> FALSE, status |-> 0]

\* verify.js: runCommand, its status
runCommand(res) == IF res.isNumber THEN res.status ELSE 1

\* the value of a key of package.json's scripts
ScriptAbsent == [kind |-> "absent", text |-> <<>>]
ScriptNonString == [kind |-> "nonstring", text |-> <<>>]
ScriptString(text) == [kind |-> "string", text |-> text]

HookNames == <<"lint", "test", "build">>
ScriptKeys == {"lint", "test", "build", "start"}

\* package.json of the worktree: missing, not JSON, or parsed
NoManifest == [kind |-> "absent", scriptsIsObj |-> FALSE, scripts |-> [k \in ScriptKeys |-> ScriptAbsent]]
UnparsableManifest == [NoManifest EXCEPT !.kind = "unparsable"]
Manifest(scripts) == [kind |-> "parsed", scriptsIsObj |-> TRUE, scripts |-> scripts]
ManifestWithoutScripts == [NoManifest EXCEPT !.kind = "parsed"]

HookWanted_Declared(scripts, k) == scripts[k].kind # "absent"

\* typeof scripts[k] === 'string' && scripts[k].trim()
HookWanted(scripts, k) == scripts[k].kind = "string" /\ ~IsBlank(scripts[k].text)

\* verify.js: detectAutoCommands; pmRunCmd is pm.config.runCmd, "" when getPackageManager gives none
detectAutoCommands(manifest, pmRunCmd) ==
  IF manifest.kind = "absent" THEN <<>>
  ELSE IF manifest.kind = "unparsable" THEN <<>>
  ELSE LET scripts == IF manifest.scriptsIsObj THEN manifest.scripts ELSE NoManifest.scripts
           wanted == SelectSeq(HookNames, LAMBDA k : HookWanted(scripts, k))
           runCmd == IF pmRunCmd # "" THEN pmRunCmd ELSE "npm run"
       IN  [i \in 1..Len(wanted) |-> VerifyCommand(wanted[i], runCmd \o " " \o wanted[i])]

\* cfg.verify: undefined, or {mode, commands} where commands may not be an array
VerifyConfig(mode, isArray, items) == [defined |-> TRUE, mode |-> mode, commandsIsArray |-> isArray, items |-> items]
NoVerifyConfig == [defined |-> FALSE, mode |-> "auto", commandsIsArray |-> FALSE, items |-> <<>>]

\* verify.js: getVerifyCommands
getVerifyCommands(verifyConfig, manifest, pmRunCmd) ==
  IF verifyConfig.defined /\ verifyConfig.mode = "manual"
  THEN IF verifyConfig.commandsIsArray THEN verifyConfig.items ELSE <<>>
  ELSE detectAutoCommands(manifest, pmRunCmd)

\* an entry of summary.commands
VerifyEntry(c, status) == [name |-> c.name, command |-> c.command, ok |-> (status = 0), exitCode |-> status]

VerifySummary(ok, results) == [exists |-> TRUE, version |-> 1, ok |-> ok, commands |-> results]
NoVerifySummary == [exists |-> FALSE, version |-> 0, ok |-> FALSE, commands |-> <<>>]

\* validate.js: validateVerifySummary finds no error (the types are right by construction)
validateVerifySummary(summary) ==
  /\ summary.exists
  /\ summary.version = 1
  /\ \A i \in 1..Len(summary.commands) : summary.commands[i].name # "" /\ summary.commands[i].command # ""

\* the characters of a command's name
NameChars(name) ==
  CASE name = "unit" -> <<"u", "n", "i", "t">>
    [] name = "Unit " -> <<"U", "n", "i", "t", " ">>
    [] name = "lint" -> <<"l", "i", "n", "t">>
    [] name = "test" -> <<"t", "e", "s", "t">>
    [] name = "build" -> <<"b", "u", "i", "l", "d">>
    [] OTHER -> <<>>

\* the characters safeName keeps: [a-z0-9._-], those that occur in the model
SafeChars == {"a", "b", "d", "e", "i", "l", "n", "s", "t", "u", ".", "_", "-"}

RECURSIVE DashRunsOutside(_, _)
\* s.replace(/[^...]+/g, '-') for the character class `keep`
DashRunsOutside(s, keep) ==
  IF Len(s) = 0 THEN <<>>
  ELSE IF Head(s) \in keep THEN <<Head(s)>> \o DashRunsOutside(Tail(s), keep)
  ELSE IF Len(s) > 1 /\ s[2] \notin keep THEN DashRunsOutside(Tail(s), keep)
  ELSE <<"-">> \o DashRunsOutside(Tail(s), keep)

\* verify.js: safeName(name)
safeName(name) ==
  LET named == IF name = <<>> THEN <<"c", "o", "m", "m", "a", "n", "d">> ELSE name
      trimmed == TrimEnd(TrimStart(named))
      cleaned == StripDashes(DashRunsOutside([i \in 1..Len(trimmed) |-> ToLowerCase(trimmed[i])], SafeChars))
  IN  IF cleaned = <<>> THEN <<"c", "o", "m", "m", "a", "n", "d">> ELSE cleaned

\* verify.js runVerify: writeText(path.join(outDir, `${name}.txt`), ...) for the i-th command; an
\* output file is kept as its name and the position of the command whose output it holds
writeOutput(outputs, name, i) ==
  {o \in outputs : o.file # safeName(NameChars(name))} \cup {[file |-> safeName(NameChars(name)), holds |-> i]}

RECURSIVE runLoop_LastWins(_, _, _, _)
runLoop_LastWins(commands, res, i, acc) ==
  IF i > Len(commands) THEN acc
  ELSE LET status == runCommand(res[i])
       IN  runLoop_LastWins(commands, res, i + 1,
                            [results |-> Append(acc.results, VerifyEntry(commands[i], status)),
                             ok |-> (status = 0),
                             ran |-> Append(acc.ran, commands[i].command),
                             outputs |-> writeOutput(acc.outputs, commands[i].name, i)])

RECURSIVE runLoop_StopOnFailure(_, _, _, _)
runLoop_StopOnFailure(commands, res, i, acc) ==
  IF i > Len(commands) \/ ~acc.ok THEN acc
  ELSE LET status == runCommand(res[i])
       IN  runLoop_StopOnFailure(commands, res, i + 1,
                                 [results |-> Append(acc.results, VerifyEntry(commands[i], status)),
                                  ok |-> IF status = 0 THEN acc.ok ELSE FALSE,
                                  ran |-> Append(acc.ran, commands[i].command),
                                  outputs |-> writeOutput(acc.outputs, commands[i].name, i)])

RECURSIVE runLoop(_, _, _, _)
\* verify.js: runVerify, the loop over the commands from the i-th on; ran is the commands spawned so far
runLoop(commands, res, i, acc) ==
  IF i > Len(commands) THEN acc
  ELSE LET status == runCommand(res[i])
       IN  runLoop(commands, res, i + 1,
                   [results |-> Append(acc.results, VerifyEntry(commands[i], status)),
                    ok |-> IF status = 0 THEN acc.ok ELSE FALSE,
                    ran |-> Append(acc.ran, commands[i].command),
                    outputs |-> writeOutput(acc.outputs, commands[i].name, i)])

\* what a call of runVerify leaves: the commands it resolved, the request it sent to the helper, the
\* commands it spawned itself, the summary it returned and verify/summary.json
VerifyResult(threw, commands, request, ran, summary, file) ==
  [called |-> TRUE, threw |-> threw, commands |-> commands, request |-> request, ran |-> ran,
   summary |-> summary, file |-> file, outputs |-> {}]

\* verify.js: runVerify without the helper
runVerifyLocal(commands, loop, file) ==
  LET summary == VerifySummary(loop.ok, loop.results)
  IN  IF validateVerifySummary(summary)
      THEN [VerifyResult(FALSE, commands, <<>>, loop.ran, summary, summary) EXCEPT !.outputs = loop.outputs]
      ELSE [VerifyResult(TRUE, commands, <<>>, loop.ran, NoVerifySummary, file) EXCEPT !.outputs = loop.outputs]

\* the helper's verify.run: the output contract of the local runner
kernelVerifyRun(request, res) ==
  VerifySummary(\A i \in 1..Len(request) : runCommand(res[i]) = 0,
                [i \in 1..Len(request) |-> VerifyEntry(request[i], runCommand(res[i]))])

\* verify.js: runVerify when runKernel gives a result: kernelOut is "throws" (runKernel threw), "empty" ({},
\* the helper printed nothing) or the helper's summary; helperWrote tells whether the helper itself
\* wrote summary.json
runVerifyKernel(commands, kernelOut, helperWrote, file) ==
  IF kernelOut.kind = "throws" THEN VerifyResult(TRUE, commands, commands, <<>>, NoVerifySummary, file)
  ELSE IF kernelOut.kind = "empty" \/ kernelOut.summary.version # 1
  THEN VerifyResult(TRUE, commands, commands, <<>>, NoVerifySummary, file)
  ELSE IF ~validateVerifySummary(kernelOut.summary)
  THEN VerifyResult(TRUE, commands, commands, <<>>, NoVerifySummary,
                    IF helperWrote THEN kernelOut.summary ELSE file)
  ELSE VerifyResult(FALSE, commands, commands, <<>>, kernelOut.summary,
                    IF helperWrote \/ ~file.exists THEN kernelOut.summary ELSE file)

KernelThrows == [kind |-> "throws", summary |-> NoVerifySummary]
KernelEmpty == [kind |-> "empty", summary |-> NoVerifySummary]
KernelSummary(summary) == [kind |-> "summary", summary |-> summary]

\* verify.js: runVerify({ worktreePath, verifyConfig, outDir })
runVerify(in, commands, res, helper, helperWrote) ==
  IF in.kernel = "on"
  THEN runVerifyKernel(commands,
                       IF helper = "summary" THEN KernelSummary(kernelVerifyRun(commands, res))
                       ELSE IF helper = "empty" THEN KernelEmpty ELSE KernelThrows,
                       helperWrote, in.file)
  ELSE runVerifyLocal(commands, runLoop(commands, res, 1, [results |-> <<>>, ok |-> TRUE, ran |-> <<>>, outputs |-> {}]), in.file)

(* Inputs of runVerify. *)

MaxCommands == 2

C_unit == VerifyCommand("unit", "node test.js")
C_lint == VerifyCommand("lint", "eslint .")
C_noCommand == VerifyCommand("unit", "")
C_UnitAgain == VerifyCommand("Unit ", "node more.js")
CommandPool == {C_unit, C_lint, C_noCommand, C_UnitAgain}

ResPool == {SpawnResult(0), SpawnResult(1), SpawnKilled}

ScriptValues == {ScriptAbsent, ScriptNonString, ScriptString(<<>>), ScriptString(<<" ">>), ScriptString(<<"x">>)}

\* the summary.json an earlier verify of the same run left: its one command failed
StaleSummary == VerifySummary(FALSE, <<VerifyEntry(C_lint, 1)>>)

VerifyCall(config, manifest, pmRunCmd, kernel, file) ==
  [config |-> config, manifest |-> manifest, pmRunCmd |-> pmRunCmd, kernel |-> kernel, file |-> file]

NoVerifyCall == VerifyCall(NoVerifyConfig, NoManifest, "", "off", NoVerifySummary)
NoVerifyResult ==
  [called |-> FALSE, threw |-> FALSE, commands |-> <<>>, request |-> <<>>, ran |-> <<>>,
   summary |-> NoVerifySummary, file |-> NoVerifySummary, outputs |-> {}]

----------------------------------------------------------------------------
(* id.js and run.js: run ids and run creation.  A run id is a sequence of  *)
(* characters; the runs directory is the set of its run directories.       *)

\* id.js: slugify(s, fallback)
slugify(s, fallback) ==
  LET cleaned == StripDashes(DashRuns(TrimEnd(TrimStart([i \in 1..Len(s) |-> ToLowerCase(s[i])]))))
  IN  IF cleaned = <<>> THEN fallback ELSE cleaned

\* the names of the directories under .ecc/runs
DirNames(dirs) == {d.id : d \in dirs}

RECURSIVE uniqueLoop(_, _, _, _)
\* id.js: ensureUniqueRunId, the while loop
uniqueLoop(dirs, base, candidate, n) ==
  IF candidate \notin DirNames(dirs) THEN candidate
  ELSE uniqueLoop(dirs, base, base \o <<"-", ToString(n)>>, n + 1)

\* id.js: ensureUniqueRunId(projectRoot, runIdBase)
ensureUniqueRunId(dirs, runIdBase) ==
  uniqueLoop(dirs, slugify(runIdBase, <<"r", "u", "n">>), slugify(runIdBase, <<"r", "u", "n">>), 2)

\* a run directory: intent.txt, and run.json with the run's intent
RunDir(id, intentTxt, run, intent) == [id |-> id, intentTxt |-> intentTxt, run |-> run, intent |-> intent]

\* fs.existsSync(paths.runJson)
RunExists(dirs, runId) == \E d \in dirs : d.id = runId /\ d.run.exists

initRunAt_Overwrite(dirs, runId, intent) ==
  [threw |-> FALSE, dirs |-> {d \in dirs : d.id # runId} \cup {RunDir(runId, intent, initRun, intent)}]

\* run.js: initRun({ projectRoot, runId, intent, ... }) on the runs directory
initRunAt(dirs, runId, intent) ==
  IF RunExists(dirs, runId) THEN [threw |-> TRUE, dirs |-> dirs]
  ELSE [threw |-> FALSE, dirs |-> {d \in dirs : d.id # runId} \cup {RunDir(runId, intent, initRun, intent)}]

\* run.js initRun: fs.mkdirSync(paths.root, ...) and writeText(paths.intentTxt, intent):
\* the run directory exists, with run.json as it was
makeRunDir(dirs, runId, intent) ==
  {d \in dirs : d.id # runId}
    \cup {IF runId \in DirNames(dirs)
          THEN [(CHOOSE d \in dirs : d.id = runId) EXCEPT !.intentTxt = intent]
          ELSE RunDir(runId, intent, NoRun, "")}

writeRunJson_Exclusive(dirs, runId, intent) ==
  IF RunExists(dirs, runId) THEN [threw |-> TRUE, dirs |-> dirs]
  ELSE [threw |-> FALSE,
        dirs |-> {d \in dirs : d.id # runId}
                   \cup {RunDir(runId, (CHOOSE d \in dirs : d.id = runId).intentTxt, initRun, intent)}]

\* run.js initRun: writeJson(paths.runJson, run), which replaces a file that is there
writeRunJson(dirs, runId, intent) ==
  [threw |-> FALSE,
   dirs |-> {d \in dirs : d.id # runId}
              \cup {RunDir(runId, (CHOOSE d \in dirs : d.id = runId).intentTxt, initRun, intent)}]

(* Inputs of run creation. *)

MaxIdLen == 2

IdAlphabet == {"a", "A", " ", "-"}

\* run directories that earlier commands left: two finished or planned runs, and a directory whose
\* run.json was never written
EarlierRuns ==
  {RunDir(<<"a">>, "old", markRunEnded(initRun, "succeeded"), "old"),
   RunDir(<<"a", "-", "2">>, "older", initRun, "older"),
   RunDir(<<"r", "u", "n">>, "lost", NoRun, "")}

\* the ids the two racing plan commands ask for
RequestedIds == {<<"a">>, <<"b">>, <<"A", " ">>}

\* a plan command: its --run-id (or default id), its intent, where it is and the id it picked
Creator(requested, intent) == [requested |-> requested, intent |-> intent, pc |-> "start", runId |-> <<>>]

----------------------------------------------------------------------------
(* git.js: the worktree of a run.  A path is absolute and normalized and   *)
(* is kept as the sequence of its segments; a segment is a sequence of     *)
(* characters.                                                             *)

RECURSIVE CommonLen(_, _)
\* the number of leading segments two paths share
CommonLen(a, b) ==
  IF Len(a) = 0 \/ Len(b) = 0 \/ Head(a) # Head(b) THEN 0 ELSE 1 + CommonLen(Tail(a), Tail(b))

\* path.relative(from, to), as a string
relative(from, to) ==
  JoinSlash([i \in 1..(Len(from) - CommonLen(from, to)) |-> DotDot]
            \o SubSeq(to, CommonLen(from, to) + 1, Len(to)))

\* git.js: assertExternalWorktreePath, isInside: rel && !rel.startsWith('..') && !path.isAbsolute(rel)
isInside(rel) == rel # <<>> /\ ~StartsWith(rel, DotDot) /\ ~StartsWith(rel, Slash)

\* the run's branch (none, at baseSha, or moved on since) and what is at worktreePath (nothing, a git
\* working copy, or something else); parentMade: mkdirSync(path.dirname(worktreePath)) ran
WtFs(branch, path) == [branch |-> branch, path |-> path, parentMade |-> FALSE]

WtCall(repoRoot, worktreePath) == [repoRoot |-> repoRoot, worktreePath |-> worktreePath]

WtResult(threw, fs) == [threw |-> threw, fs |-> fs]

ensureBranchAt_Force(fs, branchOk) ==
  IF ~branchOk THEN WtResult("git branch", fs) ELSE WtResult("none", [fs EXCEPT !.branch = "base"])

\* git.js: ensureBranchAt(repoRoot, branch, baseSha); branchOk: git branch succeeds
ensureBranchAt(fs, branchOk) ==
  IF fs.branch # "none" THEN WtResult("none", fs)
  ELSE IF ~branchOk THEN WtResult("git branch", fs)
  ELSE WtResult("none", [fs EXCEPT !.branch = "base"])

\* git.js: isGitWorktree(dir)
isGitWorktree(fs) == fs.path = "worktree"

\* git.js: ensureWorktree after ensureBranchAt gave b; addOk: git worktree add succeeds
ensureWorktreePath(b, addOk) ==
  IF b.threw # "none" THEN b
  ELSE IF b.fs.path # "absent"
  THEN IF ~isGitWorktree(b.fs) THEN WtResult("not a git worktree", b.fs) ELSE WtResult("none", b.fs)
  ELSE IF ~addOk THEN WtResult("git worktree add", [b.fs EXCEPT !.parentMade = TRUE])
  ELSE WtResult("none", [b.fs EXCEPT !.parentMade = TRUE, !.path = "worktree"])

\* git.js: ensureWorktree({ repoRoot, worktreePath, branch, baseSha })
ensureWorktreeAt(in, fs, branchOk, addOk) ==
  IF isInside(relative(in.repoRoot, in.worktreePath)) THEN WtResult("inside repo root", fs)
  ELSE ensureWorktreePath(ensureBranchAt(fs, branchOk), addOk)

(* Inputs of ensureWorktree. *)

MaxPathDepth == 3

\* the repository is at /r/a
RepoRoot == <<<<"r">>, <<"a">>>>

SegPool == {<<"r">>, <<"a">>, <<"w">>, <<".", ".", "w">>}

\* to has from as a leading part: it is from itself or a path inside it
Within(from, to) == Len(from) <= Len(to) /\ SubSeq(to, 1, Len(from)) = from

\* what can be at a path: the repository root is a working copy, and its ancestors are directories
PathStates(repoRoot, p) ==
  IF p = repoRoot THEN {"worktree"}
  ELSE IF Within(p, repoRoot) THEN {"other"}
  ELSE {"absent", "worktree", "other"}

NoWtResult == [calls |-> 0, threw |-> "none", path |-> <<>>, before |-> WtFs("none", "absent")]

----------------------------------------------------------------------------
(* kernel.js: the bridge to the ecc-kernel helper.                         *)

\* the environment of the process: ECC_KERNEL as written, whether ECC_KERNEL_PATH names a file, whether
\* the packaged binary and a build output are files, what ecc-kernel --version on the PATH does
\* ("absent", "ok", "fails"), and what the helper binary does when it is run ("ok", "notExecutable",
\* "crashes")
KernelEnv(raw, override, packaged, onPath, built, health) ==
  [raw |-> raw, override |-> override, packaged |-> packaged, onPath |-> onPath, built |-> built,
   health |-> health]

\* kernel.js: getKernelMode
getKernelMode(raw) ==
  LET v == TrimEnd(TrimStart([i \in 1..Len(raw) |-> ToLowerCase(raw[i])]))
  IN  IF raw = <<>> THEN "auto"
      ELSE IF v = <<>> \/ v = <<"a", "u", "t", "o">> THEN "auto"
      ELSE IF v = <<"r", "u", "s", "t">> \/ v = <<"k", "e", "r", "n", "e", "l">> THEN "rust"
      ELSE IF v \in {<<"n", "o", "d", "e">>, <<"j", "s">>, <<"o", "f", "f">>, <<"d", "i", "s", "a", "b", "l", "e">>}
      THEN "node"
      ELSE "auto"

\* kernel.js: findKernelBinary: the binary found ("none" for null), the places looked at and whether
\* ecc-kernel --version was spawned
findKernelBinary(env) ==
  IF env.override THEN [bin |-> "override", looked |-> <<"override">>, probed |-> FALSE]
  ELSE IF env.packaged THEN [bin |-> "packaged", looked |-> <<"override", "packaged">>, probed |-> FALSE]
  ELSE IF env.onPath = "ok"
  THEN [bin |-> "ecc-kernel", looked |-> <<"override", "packaged", "path">>, probed |-> TRUE]
  ELSE IF env.built
  THEN [bin |-> "built", looked |-> <<"override", "packaged", "path", "built">>, probed |-> TRUE]
  ELSE [bin |-> "none", looked |-> <<"override", "packaged", "path", "built">>, probed |-> TRUE]

\* kernel.js: _cached
NoCache == [set |-> FALSE, mode |-> "auto", enabled |-> FALSE, bin |-> "none"]
Cached(mode, enabled, bin) == [set |-> TRUE, mode |-> mode, enabled |-> enabled, bin |-> bin]

\* kernel.js: getKernel, given what findKernelBinary finds
getKernel(cached, mode, found) ==
  IF cached.set THEN [threw |-> FALSE, cached |-> cached, looked |-> <<>>, probed |-> FALSE]
  ELSE IF mode = "node"
  THEN [threw |-> FALSE, cached |-> Cached(mode, FALSE, "none"), looked |-> <<>>, probed |-> FALSE]
  ELSE IF mode = "rust" /\ found.bin = "none"
  THEN [threw |-> TRUE, cached |-> cached, looked |-> found.looked, probed |-> found.probed]
  ELSE [threw |-> FALSE, cached |-> Cached(mode, found.bin # "none", found.bin), looked |-> found.looked,
        probed |-> found.probed]

\* spawnSync(kernel.bin, [command]): res.error set, or an exit status with the two streams
SpawnError == [error |-> TRUE, status |-> 0, stdout |-> <<>>, stderr |-> <<>>]
SpawnExit(status, stdout, stderr) == [error |-> FALSE, status |-> status, stdout |-> stdout, stderr |-> stderr]

\* JSON.parse(stdout) succeeds; the one document of the model is {}
JsonParses(stdout) == TrimEnd(TrimStart(stdout)) = <<"{", "}">>

\* what runKernel gives: null, a value ("empty" for the {} it makes up, "document" for the parsed
\* output) or an error with its message: the remediation text, or the captured streams
KernelNull == [kind |-> "null", value |-> "none", error |-> "none", remediation |-> FALSE, stdout |-> <<>>, stderr |-> <<>>]
KernelValue(value) == [KernelNull EXCEPT !.kind = "value", !.value = value]
KernelError(error, remediation, stdout, stderr) ==
  [kind |-> "throws", value |-> "none", error |-> error, remediation |-> remediation, stdout |-> stdout,
   stderr |-> stderr]

\* kernel.js: runKernel, after getKernel, on the result of spawnSync
runKernelSpawned(res) ==
  IF res.error THEN KernelError("spawn failed", FALSE, <<>>, <<>>)
  ELSE IF res.status # 0
  THEN KernelError("exit", FALSE, TrimEnd(TrimStart(res.stdout)), TrimEnd(TrimStart(res.stderr)))
  ELSE IF TrimEnd(TrimStart(res.stdout)) = <<>> THEN KernelValue("empty")
  ELSE IF JsonParses(res.stdout) THEN KernelValue("document")
  ELSE KernelError("non-JSON output", FALSE, TrimEnd(TrimStart(res.stdout)), <<>>)

\* kernel.js: runKernel(command, inputObj): the outcome and whether the helper was spawned
runKernel(k, res) ==
  IF k.threw THEN [out |-> KernelError("required but not found", TRUE, <<>>, <<>>), spawned |-> FALSE]
  ELSE IF ~k.cached.enabled THEN [out |-> KernelNull, spawned |-> FALSE]
  ELSE [out |-> runKernelSpawned(res), spawned |-> TRUE]

(* Inputs of the kernel bridge. *)

RawModes ==
  {<<>>, <<"a", "u", "t", "o">>, <<"r", "u", "s", "t">>, <<" ", "R", "U", "S", "T">>, <<"n", "o", "d", "e">>,
   <<"o", "f", "f">>, <<"x">>}

StdoutPool == {<<>>, <<" ">>, <<"x">>, <<"{", "}">>, <<" ", "{", "}">>, <<"{">>}

\* what running the helper gives, by its health
SpawnResults(health) ==
  IF health = "notExecutable" THEN {SpawnError}
  ELSE IF health = "crashes" THEN {SpawnExit(1, out, <<"x">>) : out \in {<<>>, <<"x">>}}
  ELSE {SpawnExit(0, out, <<>>) : out \in StdoutPool} \cup {SpawnExit(1, <<"{", "}">>, <<"x">>)}

NoKernelResult ==
  [calls |-> 0, cached |-> NoCache, looked |-> <<>>, probed |-> FALSE, spawned |-> FALSE, res |-> SpawnError,
   last |-> KernelNull]

(* ecc init: cmdInit (ecc.js), config.js and lock.js.  The value of        *)
(* --packs is a sequence of lexemes, each a word, a comma or a space; a    *)
(* pack id is a sequence of lexemes, one word long for the catalog's       *)
(* packs.  A timestamp is the rank of the instant nowIso() was called at.  *)

NoPacksArg == <<"#absent">>

RECURSIVE SplitComma(_)
\* s.split(',')
SplitComma(s) ==
  IF \A i \in 1..Len(s) : s[i] # "," THEN <<s>>
  ELSE LET k == CHOOSE i \in 1..Len(s) : s[i] = "," /\ \A j \in 1..(i - 1) : s[j] # ","
       IN  <<SubSeq(s, 1, k - 1)>> \o SplitComma(SubSeq(s, k + 1, Len(s)))

\* s.trim()
Trim(s) == TrimEnd(TrimStart(s))

\* parsePacksArg(arg): null for no value, else the trimmed non-empty items
parsePacksArg(arg) ==
  IF arg = NoPacksArg \/ arg = <<>> THEN [isNull |-> TRUE, items |-> <<>>]
  ELSE [isNull |-> FALSE,
        items |-> SelectSeq([k \in 1..Len(SplitComma(arg)) |-> Trim(SplitComma(arg)[k])],
                            LAMBDA item : item # <<>>)]

\* catalog.getDefaultPacks()
getDefaultPacks == << <<"blueprint">>, <<"forge">>, <<"proof">>, <<"sentinel">> >>

\* catalog.loadPacks().map(p => p.id): the catalog the engine ships
CatalogPackIds == {getDefaultPacks[k] : k \in 1..Len(getDefaultPacks)}

\* validateSelectedPacks(selected) throws `Unknown packs`
validateSelectedPacksThrows(selected) == \E k \in 1..Len(selected) : selected[k] \notin CatalogPackIds

NoConfig == [exists |-> FALSE, version |-> 0, backend |-> "", packs |-> <<>>, verifyMode |-> "", createdAt |-> 0]

\* config.createConfig({ backend, packs }), stamped by nowIso()
createConfig(backend, packs, now) ==
  [exists |-> TRUE, version |-> 1, backend |-> backend, packs |-> packs, verifyMode |-> "auto",
   createdAt |-> now]

\* validate.validateConfig(cfg): the paths of its errors
validateConfig(cfg) ==
  (IF cfg.version # 1 THEN <<"$.version">> ELSE <<>>)
  \o (IF cfg.backend \notin {"codex", "claude"} THEN <<"$.backend">> ELSE <<>>)
  \o (IF Len(cfg.packs) < 1 THEN <<"$.packs">> ELSE <<>>)
  \o (IF cfg.verifyMode \notin {"auto", "manual"} THEN <<"$.verify.mode">> ELSE <<>>)

\* config.loadConfig(projectRoot): null without the file, throws on an invalid one
loadConfig(file) ==
  IF ~file.exists THEN [threw |-> FALSE, cfg |-> NoConfig]
  ELSE IF validateConfig(file) # <<>> THEN [threw |-> TRUE, cfg |-> NoConfig]
  ELSE [threw |-> FALSE, cfg |-> file]

NoLock == [exists |-> FALSE, version |-> 0, lockedAt |-> 0, digest |-> "", packs |-> <<>>]

\* lock.buildRegistryLock({ packs }); validateLock accepts what it builds
\* from the packs of a valid config
buildRegistryLock(packs, now, digest) ==
  [exists |-> TRUE, version |-> 1, lockedAt |-> now, digest |-> digest, packs |-> packs]

writeRegistryLock_Overwrite(lock, packs, overwrite, now, digest) ==
  buildRegistryLock(packs, now, digest)

\* lock.writeRegistryLock(projectRoot, { packs, overwrite }): the lock file after it
writeRegistryLock(lock, packs, overwrite, now, digest) ==
  IF ~overwrite /\ lock.exists THEN lock ELSE buildRegistryLock(packs, now, digest)

\* the files of the project's .ecc directory that init writes
EccDir(config, lock, gitignore) == [config |-> config, lock |-> lock, gitignore |-> gitignore]

InitResult(threw, existed, dir) == [threw |-> threw, existed |-> existed, dir |-> dir]

\* what cmdInit does once its arguments are accepted: loadConfig, createConfig
\* and saveConfig without a config, ensureEccGitignore, writeRegistryLock
initProject(backend, selected, loaded, dir, now, digest) ==
  LET cfg == IF loaded.cfg.exists THEN loaded.cfg ELSE createConfig(backend, selected, now)
  IN  IF loaded.threw \/ validateConfig(cfg) # <<>> THEN InitResult("ecc config", FALSE, dir)
      ELSE InitResult("none", loaded.cfg.exists,
                      EccDir(cfg, writeRegistryLock(dir.lock, cfg.packs, FALSE, now, digest), TRUE))

\* args.backend ? String(args.backend) : 'codex'
BackendOf(backendArg) == IF backendArg = "" THEN "codex" ELSE backendArg

\* packsArg && packsArg.length ? packsArg : catalog.getDefaultPacks()
SelectedOf(parsed) == IF ~parsed.isNull /\ Len(parsed.items) > 0 THEN parsed.items ELSE getDefaultPacks

\* cmdInit(args)
cmdInit(backendArg, packsArg, dir, now, digest) ==
  IF BackendOf(backendArg) \notin {"codex", "claude"} THEN InitResult("backend", FALSE, dir)
  ELSE IF validateSelectedPacksThrows(SelectedOf(parsePacksArg(packsArg)))
  THEN InitResult("Unknown packs", FALSE, dir)
  ELSE initProject(BackendOf(backendArg), SelectedOf(parsePacksArg(packsArg)), loadConfig(dir.config),
                   dir, now, digest)

(* Bounds and inputs of SpecInit. *)

MaxArgLen == 2
MaxInits == 2

PacksLexemes == {"forge", "nope", ",", " "}
BackendArgs == {"", "codex", "claude", "gpt"}
CatalogDigests == {"sha256:1", "sha256:2"}

\* --packs "forge, forge" and --packs ",forge ,"
ListedPacksArgs == {<<"forge", ",", " ", "forge">>, <<",", "forge", " ", ",">>}

\* a config file written by hand with a backend the engine does not know
ForeignConfig == [createConfig("gpt", << <<"forge">> >>, 0) EXCEPT !.version = 2]

\* a project whose config was committed without its lock
CommittedConfig == createConfig("claude", << <<"proof">> >>, 0)

NoInitResult ==
  [calls |-> 0, backend |-> "", selected |-> <<>>, digest |-> "", threw |-> "none", existed |-> FALSE]

----------------------------------------------------------------------------
(* Two runs side by side: project.js, run.js (runPaths), git.js            *)
(* (defaultWorktreePath, ensureWorktree) and the files the plan, exec and  *)
(* verify commands write.  A path is the sequence of its segments, a       *)
(* segment and a task id are sequences of characters.                      *)

\* path.join(base, ...rel) on an absolute base
pathJoin(base, rel) == normalizeString(base \o rel, <<>>, FALSE)

\* path.dirname(p) and path.basename(p)
dirname(p) == SubSeq(p, 1, Len(p) - 1)
basename(p) == p[Len(p)]

\* project.js: runsDir(projectRoot)
runsDirPath(projectRoot) == pathJoin(projectRoot, <<<<".", "e", "c", "c">>, <<"r", "u", "n", "s">>>>)

\* run.js: runRoot(projectRoot, runId)
runRoot(projectRoot, runId) == pathJoin(runsDirPath(projectRoot), <<runId>>)

\* run.js: runPaths(projectRoot, runId)
runPaths(projectRoot, runId) ==
  LET root == runRoot(projectRoot, runId)
  IN  [root |-> root,
       intentTxt |-> pathJoin(root, <<<<"i", "n", "t", "e", "n", "t">>>>),
       runJson |-> pathJoin(root, <<<<"r", "u", "n">>>>),
       planJson |-> pathJoin(root, <<<<"p", "l", "a", "n">>>>),
       planMd |-> pathJoin(root, <<<<"p", "l", "a", "n", ".", "m", "d">>>>),
       patchesDir |-> pathJoin(root, <<<<"p", "a", "t", "c", "h", "e", "s">>>>),
       applyDir |-> pathJoin(root, <<<<"a", "p", "p", "l", "y">>>>),
       applyJson |-> pathJoin(root, <<<<"a", "p", "p", "l", "y">>, <<"a", "p", "p", "l", "i", "e", "d">>>>),
       verifyDir |-> pathJoin(root, <<<<"v", "e", "r", "i", "f", "y">>>>),
       verifySummaryJson |-> pathJoin(root, <<<<"v", "e", "r", "i", "f", "y">>, <<"s", "u", "m", "m", "a", "r", "y">>>>),
       reportMd |-> pathJoin(root, <<<<"r", "e", "p", "o", "r", "t">>>>)]

\* os.tmpdir()/ecc-worktrees
TmpWorktrees == <<<<"t", "m", "p">>, <<"w", "t">>>>

\* git.js: defaultWorktreePath({ repoRoot, runId, worktreeRoot })
defaultWorktreePath(repoRoot, runId, worktreeRoot) == pathJoin(worktreeRoot, <<basename(repoRoot), runId>>)

\* exec.js: path.join(paths.patchesDir, `${task.id}.diff`)
patchPathIn(patchesDir, taskId) == pathJoin(patchesDir, SplitSlash(taskId \o <<".", "d", "i", "f", "f">>))

\* verify.js: path.join(outDir, `${name}.txt`) of the one command, unit
VerifyOutName == <<"u", "n", "i", "t", ".", "t", "x", "t">>

\* the file the patch of a task changes, relative to the worktree
PatchedFile == <<<<"s", "r", "c">>, <<"f">>>>

\* the shared file system: directories, git worktrees (where, of which
\* repository, on which branch) and files with the run that wrote them last
EmptyDisk == [dirs |-> {}, worktrees |-> {}, files |-> {}]

Written(d, i, paths) ==
  [d EXCEPT !.files = {f \in @ : f.path \notin paths} \cup {[path |-> p, by |-> i] : p \in paths}]

FileExists(d, p) == \E f \in d.files : f.path = p

\* a run and the command of it that is running: its project (the
\* repository root), its id, the id of its plan's task, its worktree
Runner(projectRoot, runId) ==
  [projectRoot |-> projectRoot, runId |-> runId, pc |-> "new", taskId |-> <<>>, worktreePath |-> <<>>,
   error |-> "none"]

\* the worktree of the run at its path, once it exists
WorktreeAt(d, p) == CHOOSE w \in d.worktrees : w.path = p

\* run.js initRun, plan.js generatePlan, report.js writeReport: the plan command
planFiles(d, i, r) ==
  LET paths == runPaths(r.projectRoot, r.runId)
  IN  IF FileExists(d, paths.runJson) THEN [threw |-> TRUE, disk |-> d]
      ELSE [threw |-> FALSE,
            disk |-> Written([d EXCEPT !.dirs = @ \cup {paths.root, paths.patchesDir, paths.applyDir, paths.verifyDir}],
                             i, {paths.intentTxt, paths.runJson, paths.planJson, paths.planMd, paths.reportMd})]

\* git.js ensureWorktree as execRun calls it, the git commands succeeding:
\* a worktree that exists at the path is returned, whatever it belongs to
ensureWorktreeIn(d, repoRoot, worktreePath, branch) ==
  IF isInside(relative(repoRoot, worktreePath)) THEN [threw |-> TRUE, disk |-> d]
  ELSE IF \E w \in d.worktrees : w.path = worktreePath THEN [threw |-> FALSE, disk |-> d]
  ELSE [threw |-> FALSE,
        disk |-> [d EXCEPT !.worktrees = @ \cup {[path |-> worktreePath, repoRoot |-> repoRoot, branch |-> branch]}]]

\* exec.js execRun up to the task loop, and saveRun
execStartFiles(d, i, r) ==
  LET wt == ensureWorktreeIn(d, r.projectRoot, defaultWorktreePath(r.projectRoot, r.runId, TmpWorktrees), r.runId)
      paths == runPaths(r.projectRoot, r.runId)
  IN  IF wt.threw THEN [threw |-> TRUE, disk |-> Written(d, i, {paths.runJson, paths.reportMd})]
      ELSE [threw |-> FALSE, disk |-> Written(wt.disk, i, {paths.runJson})]

\* exec.js execRun: the task's turn of the loop and the end of cmdExec.
\* fs.writeFileSync throws when the directory of patchPath does not exist.
execTaskFiles(d, i, r) ==
  LET paths == runPaths(r.projectRoot, r.runId)
      patchPath == patchPathIn(paths.patchesDir, r.taskId)
  IN  IF dirname(patchPath) \notin d.dirs
      THEN [threw |-> TRUE, disk |-> Written(d, i, {paths.runJson, paths.reportMd})]
      ELSE [threw |-> FALSE,
            disk |-> Written(d, i, {patchPath, r.worktreePath \o PatchedFile, paths.applyJson, paths.reportMd})]

\* ecc.js cmdVerify with verify.js runVerify
verifyFiles(d, i, r) ==
  LET paths == runPaths(r.projectRoot, r.runId)
  IN  Written(d, i, {paths.runJson, pathJoin(paths.verifyDir, <<VerifyOutName>>), paths.verifySummaryJson,
                     paths.reportMd})

(* Inputs of the two runs. *)

AppAtX == <<<<"x">>, <<"a", "p", "p">>>>
AppAtY == <<<<"y">>, <<"a", "p", "p">>>>
LibAtY == <<<<"y">>, <<"l", "i", "b">>>>

\* the pairs of runs: one project and two ids, and two projects whose
\* directories have or do not have the same name
RunnerPairs ==
  { <<Runner(AppAtX, <<"a">>), Runner(AppAtX, <<"b">>)>>,
    <<Runner(AppAtX, <<"a">>), Runner(AppAtX, <<"a", "-", "2">>)>>,
    <<Runner(AppAtX, <<"a">>), Runner(AppAtY, <<"a">>)>>,
    <<Runner(AppAtX, <<"a">>), Runner(AppAtY, <<"b">>)>>,
    <<Runner(AppAtX, <<"a">>), Runner(LibAtY, <<"a">>)>> }

\* task ids validatePlan accepts: a word, and ids with path separators
TaskIdPool ==
  { <<"t">>,
    <<"s", "/", "t">>,
    <<".", ".", "/", ".", ".", "/", "b", "/", "p", "a", "t", "c", "h", "e", "s", "/", "t">> }

----------------------------------------------------------------------------
(* Specifications.  Each one drives one part of the engine and leaves the  *)
(* variables of the other parts at rest.                                   *)

NoPlanResult == [called |-> FALSE, errors |-> <<>>]

PatchAtRest == patchIn = [patch |-> <<>>, allowed |-> <<>>, files |-> {}] /\ patchOut = NoApplyResult
PlanAtRest == planIn = PlanOf(<<>>) /\ planOut = NoPlanResult
VerifyAtRest == verifyIn = NoVerifyCall /\ verifyOut = NoVerifyResult
CreateAtRest == runsDir = {} /\ creators = <<>>
KernelAtRest == bridgeIn = KernelEnv(<<>>, FALSE, FALSE, "absent", FALSE, "ok") /\ bridgeOut = NoKernelResult
InitAtRest == eccDir = EccDir(NoConfig, NoLock, FALSE) /\ initOut = NoInitResult
TwoRunsAtRest == disk = EmptyDisk /\ runners = <<>>
WorktreeAtRest == wtIn = WtCall(<<>>, <<>>) /\ wtFs = WtFs("none", "absent") /\ wtOut = NoWtResult

StartProc(cmd, pc, commit, keepWorktree) ==
  [cmd |-> cmd, pc |-> pc, commit |-> commit, keepWorktree |-> keepWorktree, ordered |-> <<>>, idx |-> 0,
   applyResult |-> EmptyApplyResult, error |-> "none", failedTask |-> "none", verify |-> "none",
   exit |-> "none"]

\* the command ends: exit status "ok" (0) or "error" (main().catch, process.exit(1))
Exit(p, status) == [p EXCEPT !.pc = "idle", !.exit = status]

Throw(p, error) == Exit([p EXCEPT !.error = error], "error")

RunAtRest ==
  /\ runJson = NoRun
  /\ planJson = NoPlanFile
  /\ applyJson = NoApplyFile
  /\ verifySummaryJson = NoSummary
  /\ reportMd = NoReport
  /\ worktree = NoWorktree
  /\ proc = StartProc("none", "idle", FALSE, FALSE)
  /\ generated = <<>>

\* every part but the named one is at rest
RestExcept(part) ==
  /\ part = "patch" \/ PatchAtRest
  /\ part = "plan" \/ PlanAtRest
  /\ part = "run" \/ RunAtRest
  /\ part = "verify" \/ VerifyAtRest
  /\ part = "create" \/ CreateAtRest
  /\ part = "worktree" \/ WorktreeAtRest
  /\ part = "kernel" \/ KernelAtRest
  /\ part = "init" \/ InitAtRest
  /\ part = "tworuns" \/ TwoRunsAtRest

\* every part but the named one keeps its variables
Frame(part) ==
  /\ IF part = "patch" THEN TRUE ELSE UNCHANGED patchVars
  /\ IF part = "plan" THEN TRUE ELSE UNCHANGED planVars
  /\ IF part = "run" THEN TRUE ELSE UNCHANGED runVars
  /\ IF part = "verify" THEN TRUE ELSE UNCHANGED verifyVars
  /\ IF part = "create" THEN TRUE ELSE UNCHANGED createVars
  /\ IF part = "worktree" THEN TRUE ELSE UNCHANGED worktreeVars
  /\ IF part = "kernel" THEN TRUE ELSE UNCHANGED kernelVars
  /\ IF part = "init" THEN TRUE ELSE UNCHANGED initVars
  /\ IF part = "tworuns" THEN TRUE ELSE UNCHANGED twoRunsVars

(* SpecPatch: applyPatch on every input. *)

PatchInit ==
  /\ patchIn \in OwnershipInputs \cup SectionInputs
  /\ patchOut = NoApplyResult
  /\ RestExcept("patch")

\* diff.applyPatch({ worktreePath, patchPath, allowedPathPrefixes })
ApplyPatchCall ==
  /\ patchOut.outcome = "none"
  /\ \E hunksMatch \in BOOLEAN, applyOk \in BOOLEAN :
       patchOut' = applyPatch(patchIn.files, patchIn.patch, patchIn.allowed, hunksMatch, applyOk)
  /\ UNCHANGED patchIn
  /\ Frame("patch")

PatchNext == ApplyPatchCall

SpecPatch == PatchInit /\ [][PatchNext]_vars

(* SpecPlan: validatePlan on every plan. *)

PlanInit ==
  /\ \/ \E shell \in PlanShells, n \in 0..MaxTasks :
          \E ts \in [1..n -> TaskPool] : planIn = [shell EXCEPT !.tasks = ts]
     \/ planIn \in OddPlans
  /\ planOut = NoPlanResult
  /\ RestExcept("plan")

\* validatePlan(plan)
ValidatePlanCall ==
  /\ ~planOut.called
  /\ planOut' = [called |-> TRUE, errors |-> validatePlan(planIn)]
  /\ UNCHANGED planIn
  /\ Frame("plan")

PlanNext == ValidatePlanCall

SpecPlan == PlanInit /\ [][PlanNext]_vars

(* SpecVerify: runVerify on every configuration, manifest and exit status. *)

AllHooks == [k \in ScriptKeys |-> ScriptString(<<"x">>)]

VerifyInit ==
  /\ \E kernel \in {"off", "on"}, file \in {NoVerifySummary, StaleSummary} :
       \/ \E n \in 0..MaxCommands :
            \E items \in [1..n -> CommandPool] :
              verifyIn = VerifyCall(VerifyConfig("manual", TRUE, items), Manifest(AllHooks), "", kernel, file)
       \/ verifyIn = VerifyCall(VerifyConfig("manual", FALSE, <<>>), Manifest(AllHooks), "", kernel, file)
       \/ \E config \in {NoVerifyConfig, VerifyConfig("auto", TRUE, <<C_unit>>)}, pmRunCmd \in {"", "pnpm"} :
            \/ \E hooks \in [{"lint", "test", "build"} -> ScriptValues], start \in {ScriptAbsent, ScriptString(<<"x">>)} :
                 verifyIn = VerifyCall(config,
                                       Manifest([k \in ScriptKeys |-> IF k = "start" THEN start ELSE hooks[k]]),
                                       pmRunCmd, kernel, file)
            \/ \E manifest \in {NoManifest, UnparsableManifest, ManifestWithoutScripts} :
                 verifyIn = VerifyCall(config, manifest, pmRunCmd, kernel, file)
  /\ verifyOut = NoVerifyResult
  /\ RestExcept("verify")

\* verify.runVerify({ worktreePath, verifyConfig, outDir }); each command ends with some status
RunVerifyCall ==
  /\ ~verifyOut.called
  /\ \E res \in [1..Len(getVerifyCommands(verifyIn.config, verifyIn.manifest, verifyIn.pmRunCmd)) -> ResPool],
        helper \in {"throws", "empty", "summary"}, helperWrote \in BOOLEAN :
       verifyOut' = runVerify(verifyIn, getVerifyCommands(verifyIn.config, verifyIn.manifest, verifyIn.pmRunCmd),
                              res, helper, helperWrote)
  /\ UNCHANGED verifyIn
  /\ Frame("verify")

VerifyNext == RunVerifyCall

SpecVerify == VerifyInit /\ [][VerifyNext]_vars

(* SpecCreate: two plan commands create their runs side by side. *)

CreateInit ==
  /\ runsDir \in SUBSET EarlierRuns
  /\ \E requested \in StringsUpTo(IdAlphabet, MaxIdLen), other \in {<<"a">>, <<"A", " ">>} :
       creators = <<Creator(requested, "one"), Creator(other, "two")>>
  /\ RestExcept("create")

\* cmdPlan: the run id is picked by probing the runs directory
PickRunId(p) ==
  /\ creators[p].pc = "start"
  /\ creators' = [creators EXCEPT ![p].pc = "picked", ![p].runId = ensureUniqueRunId(runsDir, creators[p].requested)]
  /\ UNCHANGED runsDir
  /\ Frame("create")

\* cmdPlan: runMod.initRun with the picked id
InitRunCall(p) ==
  /\ creators[p].pc = "picked"
  /\ LET r == initRunAt(runsDir, creators[p].runId, creators[p].intent)
     IN  /\ runsDir' = r.dirs
         /\ creators' = [creators EXCEPT ![p].pc = IF r.threw THEN "threw" ELSE "created"]
  /\ Frame("create")

CreateNext == \E p \in 1..2 : PickRunId(p) \/ InitRunCall(p)

SpecCreate == CreateInit /\ [][CreateNext]_vars

(* SpecRace: two plan commands in two processes; each call that reads or   *)
(* writes the runs directory is a step of its own.                         *)

RaceInit ==
  /\ runsDir \in SUBSET EarlierRuns
  /\ \E one \in RequestedIds, two \in RequestedIds :
       creators = <<Creator(one, "one"), Creator(two, "two")>>
  /\ RestExcept("create")

\* cmdPlan: idMod.ensureUniqueRunId(projectRoot, requestedRunId)
RaceProbe(p) ==
  /\ creators[p].pc = "start"
  /\ creators' = [creators EXCEPT ![p].pc = "picked", ![p].runId = ensureUniqueRunId(runsDir, creators[p].requested)]
  /\ UNCHANGED runsDir
  /\ Frame("create")

\* initRun: if (fs.existsSync(paths.runJson)) throw
RaceCheck(p) ==
  /\ creators[p].pc = "picked"
  /\ creators' = [creators EXCEPT ![p].pc = IF RunExists(runsDir, creators[p].runId) THEN "threw" ELSE "checked"]
  /\ UNCHANGED runsDir
  /\ Frame("create")

\* initRun: the mkdirSync calls and writeText(paths.intentTxt, ...)
RaceMkdir(p) ==
  /\ creators[p].pc = "checked"
  /\ runsDir' = makeRunDir(runsDir, creators[p].runId, creators[p].intent)
  /\ creators' = [creators EXCEPT ![p].pc = "made"]
  /\ Frame("create")

\* initRun: writeJson(paths.runJson, run)
RaceWrite(p) ==
  /\ creators[p].pc = "made"
  /\ LET r == writeRunJson(runsDir, creators[p].runId, creators[p].intent)
     IN  /\ runsDir' = r.dirs
         /\ creators' = [creators EXCEPT ![p].pc = IF r.threw THEN "threw" ELSE "created"]
  /\ Frame("create")

RaceNext == \E p \in 1..2 : RaceProbe(p) \/ RaceCheck(p) \/ RaceMkdir(p) \/ RaceWrite(p)

SpecRace == RaceInit /\ [][RaceNext]_vars

(* SpecWorktree: ensureWorktree, called and called again. *)

WorktreeInit ==
  /\ \E n \in 0..MaxPathDepth :
       \E p \in [1..n -> SegPool] :
         /\ wtIn = WtCall(RepoRoot, p)
         /\ \E branch \in {"none", "base", "moved"}, path \in PathStates(RepoRoot, p) : wtFs = WtFs(branch, path)
  /\ wtOut = NoWtResult
  /\ RestExcept("worktree")

\* git.ensureWorktree({ repoRoot, worktreePath, branch, baseSha }), at most twice
EnsureWorktreeCall ==
  /\ wtOut.calls < 2
  /\ \E branchOk \in BOOLEAN, addOk \in BOOLEAN :
       /\ wtFs' = ensureWorktreeAt(wtIn, wtFs, branchOk, addOk).fs
       /\ wtOut' = [calls |-> wtOut.calls + 1,
                    threw |-> ensureWorktreeAt(wtIn, wtFs, branchOk, addOk).threw,
                    path |-> wtIn.worktreePath,
                    before |-> wtFs]
  /\ UNCHANGED wtIn
  /\ Frame("worktree")

WorktreeNext == EnsureWorktreeCall

SpecWorktree == WorktreeInit /\ [][WorktreeNext]_vars

(* SpecKernel: runKernel, called and called again in one process. *)

KernelInit ==
  /\ \E raw \in RawModes, override \in BOOLEAN, packaged \in BOOLEAN, onPath \in {"absent", "ok", "fails"},
        built \in BOOLEAN, health \in {"ok", "notExecutable", "crashes"} :
       /\ bridgeIn = KernelEnv(raw, override, packaged, onPath, built, health)
       \* a binary that answered --version can be run
       /\ findKernelBinary(bridgeIn).bin = "ecc-kernel" => health # "notExecutable"
  /\ bridgeOut = NoKernelResult
  /\ RestExcept("kernel")

\* kernel.runKernel(command, inputObj), at most twice
RunKernelCall ==
  /\ bridgeOut.calls < 2
  /\ \E res \in SpawnResults(bridgeIn.health) :
       LET k == getKernel(bridgeOut.cached, getKernelMode(bridgeIn.raw), findKernelBinary(bridgeIn))
       IN  bridgeOut' = [calls |-> bridgeOut.calls + 1,
                         cached |-> k.cached,
                         looked |-> k.looked,
                         probed |-> k.probed,
                         spawned |-> runKernel(k, res).spawned,
                         res |-> res,
                         last |-> runKernel(k, res).out]
  /\ UNCHANGED bridgeIn
  /\ Frame("kernel")

KernelNext == RunKernelCall

SpecKernel == KernelInit /\ [][KernelNext]_vars

(* SpecInit: ecc init, invoked again and again on one project. *)

InitInit ==
  /\ eccDir \in {EccDir(c, NoLock, FALSE) : c \in {NoConfig, ForeignConfig, CommittedConfig}}
  /\ initOut = NoInitResult
  /\ RestExcept("init")

\* ecc init [--backend b] [--packs p], while the engine's catalog has some digest
CmdInit ==
  /\ initOut.calls < MaxInits
  /\ \E backendArg \in BackendArgs, n \in 0..MaxArgLen, digest \in CatalogDigests :
       \E packs \in [1..n -> PacksLexemes] \cup ListedPacksArgs \cup {NoPacksArg} :
         LET r == cmdInit(backendArg, packs, eccDir, initOut.calls + 1, digest)
         IN  /\ eccDir' = r.dir
             /\ initOut' = [calls |-> initOut.calls + 1,
                            backend |-> BackendOf(backendArg),
                            selected |-> SelectedOf(parsePacksArg(packs)),
                            digest |-> digest,
                            threw |-> r.threw,
                            existed |-> r.existed]
  /\ Frame("init")

InitNext == CmdInit

SpecInit == InitInit /\ [][InitNext]_vars

(* SpecTwoRuns: the plan, exec and verify commands of two runs, interleaved. *)

TwoRunsInit ==
  /\ disk = EmptyDisk
  /\ runners \in RunnerPairs
  /\ RestExcept("tworuns")

\* ecc plan of run i
TwoPlan(i) ==
  /\ runners[i].pc = "new"
  /\ \E taskId \in TaskIdPool :
       LET r == planFiles(disk, i, runners[i])
       IN  /\ disk' = r.disk
           /\ runners' = [runners EXCEPT ![i].pc = IF r.threw THEN "threw" ELSE "planned", ![i].taskId = taskId]
  /\ Frame("tworuns")

\* ecc exec of run i: execRun up to the task loop
TwoExecStart(i) ==
  /\ runners[i].pc = "planned"
  /\ LET r == execStartFiles(disk, i, runners[i])
     IN  /\ disk' = r.disk
         /\ runners' = [runners EXCEPT ![i].pc = IF r.threw THEN "failed" ELSE "task",
                                       ![i].worktreePath = IF r.threw THEN @
                                                           ELSE defaultWorktreePath(runners[i].projectRoot,
                                                                                    runners[i].runId, TmpWorktrees)]
  /\ Frame("tworuns")

\* ecc exec of run i: the task loop and the rest of the command
TwoExecTask(i) ==
  /\ runners[i].pc = "task"
  /\ LET r == execTaskFiles(disk, i, runners[i])
     IN  /\ disk' = r.disk
         /\ runners' = [runners EXCEPT ![i].pc = IF r.threw THEN "failed" ELSE "executed",
                                       ![i].error = IF r.threw THEN "ENOENT" ELSE @]
  /\ Frame("tworuns")

\* ecc verify of run i
TwoVerify(i) ==
  /\ runners[i].pc = "executed"
  /\ disk' = verifyFiles(disk, i, runners[i])
  /\ runners' = [runners EXCEPT ![i].pc = "verified"]
  /\ Frame("tworuns")

TwoRunsNext == \E i \in 1..2 : TwoPlan(i) \/ TwoExecStart(i) \/ TwoExecTask(i) \/ TwoVerify(i)

SpecTwoRuns == TwoRunsInit /\ [][TwoRunsNext]_vars

(* Spec: the plan, exec, verify and run commands on one run.  proc holds   *)
(* the running command: its name, its position, its flags and its locals;  *)
(* once the command has ended it keeps them, with pc = "idle" and the exit *)
(* status, until the next command starts.                                  *)

Init == RunAtRest /\ RestExcept("run")

\* ecc plan <intent>: ensureUniqueRunId picks an unused id, so the command
\* acts on this run only while the run does not exist
CmdPlan ==
  /\ proc.pc = "idle"
  /\ ~runJson.exists
  /\ \E providerPlan \in ProviderPlans, base \in PlanBases :
       LET r == planStage(base, providerPlan, applyJson, verifySummaryJson, reportMd)
           p == [StartProc("plan", "plan", FALSE, FALSE) EXCEPT !.error = r.error]
       IN  /\ runJson' = r.runJson
           /\ planJson' = r.planJson
           /\ reportMd' = r.reportMd
           /\ proc' = Exit(p, IF r.threw THEN "error" ELSE "ok")
  /\ generated' = <<>>
  /\ UNCHANGED <<applyJson, verifySummaryJson, worktree, callVars>>

\* ecc run <intent>: the plan stage, then on to execRun
CmdRun ==
  /\ proc.pc = "idle"
  /\ ~runJson.exists
  /\ \E providerPlan \in ProviderPlans, base \in PlanBases, commit \in BOOLEAN, keepWorktree \in BOOLEAN :
       LET r == planStage(base, providerPlan, applyJson, verifySummaryJson, reportMd)
           p == [StartProc("run", "execRun", commit, keepWorktree) EXCEPT !.error = r.error]
       IN  /\ runJson' = r.runJson
           /\ planJson' = r.planJson
           /\ reportMd' = r.reportMd
           /\ proc' = IF r.threw THEN Exit(p, "error") ELSE p
  /\ generated' = <<>>
  /\ UNCHANGED <<applyJson, verifySummaryJson, worktree, callVars>>

\* ecc exec <runId> [--commit] [--keep-worktree]: up to the call of execRun
CmdExec ==
  /\ proc.pc = "idle"
  /\ \E commit \in BOOLEAN, keepWorktree \in BOOLEAN :
       proc' = StartProc("exec", "execRun", commit, keepWorktree)
  /\ generated' = <<>>
  /\ UNCHANGED <<runJson, planJson, applyJson, verifySummaryJson, reportMd, worktree, callVars>>

\* execRun up to the task loop: load the run and the plan, ensure the
\* worktree, save status executing, order the tasks.  gitOk is whether the
\* git commands (rev-parse, branch, worktree add) succeed.
ExecRunStart ==
  /\ proc.pc = "execRun"
  /\ \E gitOk \in BOOLEAN :
       IF ~runJson.exists
       THEN proc' = [proc EXCEPT !.pc = "catch", !.error = "unknown runId"] /\ UNCHANGED <<runJson, worktree>>
       ELSE IF ~planJson.exists
       THEN proc' = [proc EXCEPT !.pc = "catch", !.error = "missing plan"] /\ UNCHANGED <<runJson, worktree>>
       ELSE IF ~gitOk
       THEN proc' = [proc EXCEPT !.pc = "catch", !.error = "worktree"] /\ UNCHANGED <<runJson, worktree>>
       ELSE LET sorted == topoSortTasks(planJson.tasks)
            IN  /\ worktree' = ensureWorktree(worktree)
                /\ runJson' = [runJson EXCEPT !.status = "executing", !.worktreePath = WtPath]
                /\ proc' = IF sorted.threw
                           THEN [proc EXCEPT !.pc = "catch", !.error = "cycle"]
                           ELSE [proc EXCEPT !.pc = "task", !.ordered = sorted.out, !.idx = 1]
  /\ UNCHANGED <<planJson, applyJson, verifySummaryJson, reportMd, generated, callVars>>

\* execRun: what one turn of the task loop leaves behind, r being its outcome
ExecTaskEffect(task, r) ==
  /\ generated' = Append(generated, task.id)
  /\ applyJson' = r.applyJson
  /\ worktree' = [worktree EXCEPT !.files = r.files]
  /\ proc' = IF r.threw
             THEN [proc EXCEPT !.pc = "catch", !.error = r.error, !.failedTask = task.id,
                               !.applyResult = r.applyResult]
             ELSE [proc EXCEPT !.idx = @ + 1, !.applyResult = r.applyResult]

\* execRun: one turn of the task loop
ExecTask ==
  /\ proc.pc = "task"
  /\ proc.idx <= Len(proc.ordered)
  /\ \E providerOut \in ProviderPatchOuts, hunksMatch \in BOOLEAN, applyOk \in BOOLEAN :
       ExecTaskEffect(proc.ordered[proc.idx],
                      execTask(proc.ordered[proc.idx], providerOut, worktree.files, hunksMatch, applyOk,
                               proc.applyResult, applyJson))
  /\ UNCHANGED <<runJson, planJson, verifySummaryJson, reportMd, callVars>>

\* execRun after the loop: write applied.json and return
ExecRunReturn ==
  /\ proc.pc = "task"
  /\ proc.idx > Len(proc.ordered)
  /\ applyJson' = writeJson(proc.applyResult)
  /\ proc' = [proc EXCEPT !.pc = "afterExec"]
  /\ UNCHANGED <<runJson, planJson, verifySummaryJson, reportMd, worktree, generated, callVars>>

\* cmdExec / cmdRun: catch (err) around execRun
CmdExecCatch ==
  /\ proc.pc = "catch"
  /\ LET run == IF runJson.exists THEN markRunEnded(runJson, "failed") ELSE runJson
         rep == writeReport(run, planJson, applyJson, verifySummaryJson, reportMd)
     IN  /\ runJson' = run
         /\ reportMd' = rep.reportMd
         /\ proc' = IF rep.threw THEN Throw(proc, "missing run.json") ELSE Exit(proc, "error")
  /\ UNCHANGED <<planJson, applyJson, verifySummaryJson, worktree, generated, callVars>>

\* cmdExec after execRun returned: with --commit on to verifying, else the report
CmdExecAfter ==
  /\ proc.pc = "afterExec"
  /\ proc.cmd = "exec"
  /\ IF proc.commit
     THEN /\ runJson' = [runJson EXCEPT !.status = "verifying"]
          /\ proc' = [proc EXCEPT !.pc = "verify"]
          /\ UNCHANGED reportMd
     ELSE /\ reportMd' = writeReport(runJson, planJson, applyJson, verifySummaryJson, reportMd).reportMd
          /\ proc' = Exit(proc, "ok")
          /\ UNCHANGED runJson
  /\ UNCHANGED <<planJson, applyJson, verifySummaryJson, worktree, generated, callVars>>

\* cmdRun after execRun returned: on to verifying
CmdRunAfter ==
  /\ proc.pc = "afterExec"
  /\ proc.cmd = "run"
  /\ runJson' = [runJson EXCEPT !.status = "verifying"]
  /\ proc' = [proc EXCEPT !.pc = "verify"]
  /\ UNCHANGED <<planJson, applyJson, verifySummaryJson, reportMd, worktree, generated, callVars>>

\* ecc verify <runId>: up to the call of runVerify
CmdVerify ==
  /\ proc.pc = "idle"
  /\ generated' = <<>>
  /\ \E gitOk \in BOOLEAN :
       LET p == StartProc("verify", "verify", FALSE, FALSE)
           missing == runJson.worktreePath = "" \/ ~worktree.exists
           hasCommit == applyJson.exists /\ applyJson.commit
       IN  IF ~runJson.exists
           THEN proc' = Throw(p, "unknown runId") /\ UNCHANGED <<runJson, worktree>>
           ELSE IF missing /\ ~hasCommit
           THEN proc' = Throw(p, "missing worktree") /\ UNCHANGED <<runJson, worktree>>
           ELSE IF missing /\ ~gitOk
           THEN proc' = Throw(p, "worktree") /\ UNCHANGED <<runJson, worktree>>
           ELSE /\ worktree' = IF missing THEN ensureWorktree(worktree) ELSE worktree
                /\ runJson' = [runJson EXCEPT !.status = "verifying",
                                              !.worktreePath = IF missing THEN WtPath ELSE @]
                /\ proc' = p
  /\ UNCHANGED <<planJson, applyJson, verifySummaryJson, reportMd, callVars>>

\* verify.js runVerify: throws, or writes summary.json and returns it
RunVerify ==
  /\ proc.pc = "verify"
  /\ \E outcome \in {"ok", "notok", "throws"} :
       IF outcome = "throws"
       THEN /\ proc' = Throw([proc EXCEPT !.verify = "throws"], "verify")
            /\ UNCHANGED verifySummaryJson
       ELSE /\ verifySummaryJson' = [exists |-> TRUE, ok |-> (outcome = "ok")]
            /\ proc' = [proc EXCEPT !.pc = "verified", !.verify = outcome]
  /\ UNCHANGED <<runJson, planJson, applyJson, reportMd, worktree, generated, callVars>>

VerifyFailed_ThenCommit ==
  /\ runJson' = markRunEnded(runJson, "failed")
  /\ applyJson' = IF proc.commit THEN writeJson([proc.applyResult EXCEPT !.commit = TRUE]) ELSE applyJson
  /\ worktree' = IF proc.commit THEN [worktree EXCEPT !.tip = worktree.files] ELSE worktree
  /\ reportMd' = writeReport(runJson', planJson, applyJson', verifySummaryJson, reportMd).reportMd
  /\ proc' = Exit(proc, "error")

\* what `if (!summary.ok)` does in the three commands
VerifyFailed ==
  /\ runJson' = markRunEnded(runJson, "failed")
  /\ reportMd' = writeReport(runJson', planJson, applyJson, verifySummaryJson, reportMd).reportMd
  /\ proc' = Exit(proc, "error")
  /\ UNCHANGED <<applyJson, worktree>>

\* cmdExec --commit after runVerify: failed, or commit, succeeded, cleanup, report
CmdExecFinish ==
  /\ proc.pc = "verified"
  /\ proc.cmd = "exec"
  /\ IF proc.verify = "notok" THEN VerifyFailed
     ELSE \E commitOk \in BOOLEAN, removeOk \in BOOLEAN :
            IF ~commitOk
            THEN proc' = Throw(proc, "commit") /\ UNCHANGED <<runJson, applyJson, reportMd, worktree>>
            ELSE LET committed == [worktree EXCEPT !.tip = worktree.files]
                     run == markRunEnded(runJson, "succeeded")
                     removed == ~proc.keepWorktree /\ removeOk
                 IN  /\ applyJson' = writeJson([proc.applyResult EXCEPT !.commit = TRUE])
                     /\ worktree' = IF removed THEN [committed EXCEPT !.exists = FALSE, !.files = {}] ELSE committed
                     /\ runJson' = IF removed THEN [run EXCEPT !.worktreePath = ""] ELSE run
                     /\ reportMd' = writeReport(runJson', planJson, applyJson', verifySummaryJson, reportMd).reportMd
                     /\ proc' = Exit([proc EXCEPT !.applyResult.commit = TRUE], "ok")
  /\ UNCHANGED <<planJson, verifySummaryJson, generated, callVars>>

\* cmdVerify after runVerify
CmdVerifyFinish ==
  /\ proc.pc = "verified"
  /\ proc.cmd = "verify"
  /\ IF proc.verify = "notok" THEN VerifyFailed
     ELSE /\ runJson' = markRunEnded(runJson, "succeeded")
          /\ reportMd' = writeReport(runJson', planJson, applyJson, verifySummaryJson, reportMd).reportMd
          /\ proc' = Exit(proc, "ok")
          /\ UNCHANGED <<applyJson, worktree>>
  /\ UNCHANGED <<planJson, verifySummaryJson, generated, callVars>>

\* cmdRun after runVerify: failed, or commit if asked, succeeded, report, cleanup
CmdRunFinish ==
  /\ proc.pc = "verified"
  /\ proc.cmd = "run"
  /\ IF proc.verify = "notok" THEN VerifyFailed
     ELSE \E commitOk \in BOOLEAN, removeOk \in BOOLEAN :
            IF proc.commit /\ ~commitOk
            THEN proc' = Throw(proc, "commit") /\ UNCHANGED <<runJson, applyJson, reportMd, worktree>>
            ELSE LET committed == IF proc.commit THEN [worktree EXCEPT !.tip = worktree.files] ELSE worktree
                     run == markRunEnded(runJson, "succeeded")
                     removed == proc.commit /\ ~proc.keepWorktree /\ removeOk
                 IN  /\ applyJson' = IF proc.commit
                                     THEN writeJson([proc.applyResult EXCEPT !.commit = TRUE])
                                     ELSE applyJson
                     /\ reportMd' = writeReport(run, planJson, applyJson', verifySummaryJson, reportMd).reportMd
                     /\ worktree' = IF removed THEN [committed EXCEPT !.exists = FALSE, !.files = {}] ELSE committed
                     /\ runJson' = IF removed THEN [run EXCEPT !.worktreePath = ""] ELSE run
                     /\ proc' = Exit([proc EXCEPT !.applyResult.commit = proc.commit], "ok")
  /\ UNCHANGED <<planJson, verifySummaryJson, generated, callVars>>

Next ==
  \/ CmdPlan
  \/ CmdRun
  \/ CmdExec
  \/ ExecRunStart
  \/ ExecTask
  \/ ExecRunReturn
  \/ CmdExecCatch
  \/ CmdExecAfter
  \/ CmdRunAfter
  \/ CmdVerify
  \/ RunVerify
  \/ CmdExecFinish
  \/ CmdVerifyFinish
  \/ CmdRunFinish

Spec == Init /\ [][Next]_vars

(* SpecExec: the exec command on a planned run whose plan.json was edited  *)
(* after the plan stage had validated and written it.                      *)

\* task lists an edited plan.json can hold: cycles, chains, a shared
\* dependency, and lists whose ids repeat or whose dependency is unknown
EditedTaskLists ==
  { <<Task("a", ArrayOf(<<"a">>))>>,
    <<Task("a", ArrayOf(<<"b">>)), Task("b", ArrayOf(<<"a">>))>>,
    <<Task("a", ArrayOf(<<>>)), Task("b", ArrayOf(<<"c">>)), Task("c", ArrayOf(<<"b">>))>>,
    <<Task("a", ArrayOf(<<"b">>)), Task("b", ArrayOf(<<"c">>)), Task("c", ArrayOf(<<"a">>))>>,
    <<Task("a", ArrayOf(<<>>))>>,
    <<Task("b", ArrayOf(<<"a">>)), Task("a", AbsentField)>>,
    <<Task("a", ArrayOf(<<"b">>)), Task("b", ArrayOf(<<"c">>)), Task("c", ArrayOf(<<>>))>>,
    <<Task("a", ArrayOf(<<"c">>)), Task("b", ArrayOf(<<"c", "a">>)), Task("c", ArrayOf(<<>>))>>,
    <<Task("a", ArrayOf(<<"a">>)), Task("a", ArrayOf(<<>>))>>,
    <<Task("a", ArrayOf(<<"z">>))>> }

ExecInit ==
  /\ runJson = initRun
  /\ planJson \in {[exists |-> TRUE, tasks |-> tasks] : tasks \in EditedTaskLists}
  /\ applyJson = NoApplyFile
  /\ verifySummaryJson = NoSummary
  /\ reportMd = writeReport(initRun, planJson, NoApplyFile, NoSummary, NoReport).reportMd
  /\ worktree = NoWorktree
  /\ proc = StartProc("none", "idle", FALSE, FALSE)
  /\ generated = <<>>
  /\ RestExcept("run")

ExecNext ==
  \/ CmdExec
  \/ ExecRunStart
  \/ ExecTask
  \/ ExecRunReturn
  \/ CmdExecCatch
  \/ CmdExecAfter
  \/ RunVerify
  \/ CmdExecFinish

SpecExec == ExecInit /\ [][ExecNext]_vars

----------------------------------------------------------------------------
(* Claims about applyPatch (checked under SpecPatch).                      *)

PatchReturned == patchOut.outcome # "none"

\* The prefix rule as the specification words it: the prefix is brought to
\* end with exactly one trailing "/".
RECURSIVE StripTrailingSlashes(_)
StripTrailingSlashes(p) ==
  IF Len(p) > 0 /\ p[Len(p)] = "/" THEN StripTrailingSlashes(SubSeq(p, 1, Len(p) - 1)) ELSE p

SingleSlashForm(p) == Append(StripTrailingSlashes(p), "/")

\* The prefix rule of the code: backslashes become "/", and one "/" is
\* appended unless the prefix already ends with "/".
AppendIfMissingForm(p) ==
  LET q == [i \in 1..Len(p) |-> IF p[i] = "\\" THEN "/" ELSE p[i]]
  IN  IF Len(q) > 0 /\ q[Len(q)] = "/" THEN q ELSE Append(q, "/")

AuthorizedBy(path, n) ==
  \/ path = SubSeq(n, 1, Len(n) - 1)
  \/ (Len(n) <= Len(path) /\ \A j \in 1..Len(n) : path[j] = n[j])

\* the valid touched paths the ownership check looked at, and those it rejected
CheckedPaths == {f.path : f \in {g \in Range(touchedFilesFromUnifiedDiff(patchIn.patch)) : ~g.invalid}}
RejectedPaths == {v.path : v \in {w \in Range(patchOut.violations) : w.why = "unauthorized"}}
OwnershipChecked == PatchReturned /\ patchOut.error \notin {"malformed", "emptyPrefixes"} /\ ~PatchIsBlank(patchIn.patch)

\* C1: every file a successful applyPatch changes in the worktree is one of
\* the touched files the ownership check inspected and is authorized by
\* the task's allowedPathPrefixes.
C1_MutatedFilesAreOwned ==
  (PatchReturned /\ patchOut.outcome = "ok") =>
     \A f \in patchOut.mutated :
        /\ f \in Range(patchOut.touchedFiles)
        /\ \E i \in 1..Len(patchIn.allowed) : AuthorizedBy(f, AppendIfMissingForm(patchIn.allowed[i]))

\* C2 as stated: a touched path is authorized iff some allowed prefix,
\* normalized to end with a single trailing "/", equals the path once its
\* "/" is removed or is a prefix of the path.
C2_SingleSlashOwnership ==
  OwnershipChecked =>
     \A f \in CheckedPaths :
        (f \notin RejectedPaths) <=>
           \E i \in 1..Len(patchIn.allowed) : AuthorizedBy(f, SingleSlashForm(patchIn.allowed[i]))

\* C2 amended: a touched path is authorized iff some allowed prefix, with
\* backslashes turned into "/" and one "/" appended unless it already ends
\* with "/", equals the path once its last "/" is removed or is a prefix of
\* the path; prefix "src/" authorizes src/a.txt and src/sub/b.txt and
\* rejects srcx/a.txt and README.md.
C2_Ownership ==
  /\ OwnershipChecked =>
       \A f \in CheckedPaths :
          (f \notin RejectedPaths) <=>
             \E i \in 1..Len(patchIn.allowed) : AuthorizedBy(f, AppendIfMissingForm(patchIn.allowed[i]))
  /\ (OwnershipChecked /\ patchIn.allowed = <<P_srcSlash>>) =>
       /\ RejectedPaths \cap {P_src_a_txt, P_src_sub_b_txt} = {}
       /\ CheckedPaths \cap {P_srcx_a_txt, P_README_md} \subseteq RejectedPaths

C2_Witness ==
  /\ OwnershipChecked
  /\ patchIn.allowed = <<P_srcSlash>>
  /\ P_srcx_a_txt \in RejectedPaths
  /\ patchOut.error = "ownership"

----------------------------------------------------------------------------
(* Claims about validatePlan (checked under SpecPlan).                     *)

PlanTasks == planIn.tasks
TaskIdx == 1..Len(PlanTasks)

IntentNonEmpty == planIn.intent # "" /\ planIn.intent # NotStr

\* no two tasks carry the same id
TaskIdsUnique ==
  \A i \in TaskIdx, j \in TaskIdx :
     (i # j /\ PlanTasks[i].isObj /\ PlanTasks[j].isObj) => PlanTasks[i].id # PlanTasks[j].id

DeclaredDeps(t) == IF t.isObj /\ t.dependsOn.kind = "array" THEN Range(t.dependsOn.items) ELSE {}

DepsResolve ==
  \A i \in TaskIdx : \A d \in DeclaredDeps(PlanTasks[i]) :
     \E k \in TaskIdx : PlanTasks[k].isObj /\ PlanTasks[k].id = d

\* the dependency graph: an edge from a task id to each id it depends on
DepEdges == UNION {{<<PlanTasks[i].id, d>> : d \in DeclaredDeps(PlanTasks[i])} : i \in {k \in TaskIdx : PlanTasks[k].isObj}}

RECURSIVE ReachableIn(_, _, _)
ReachableIn(from, edges, n) ==
  IF n = 0 THEN from
  ELSE ReachableIn(from \cup {e[2] : e \in {x \in edges : x[1] \in from}}, edges, n - 1)

GraphAcyclic ==
  \A e \in DepEdges : e[1] \notin ReachableIn({e[2]}, DepEdges, Cardinality(DepEdges))

NonEmptyAtom(v) == v # "" /\ v # NotStr

TaskWellFormed(t) ==
  /\ t.isObj
  /\ NonEmptyAtom(t.id) /\ NonEmptyAtom(t.title) /\ NonEmptyAtom(t.prompt)
  /\ t.kind = "patch"
  /\ t.dependsOn.kind \in {"array", "absent"}
  /\ \A d \in DeclaredDeps(t) : NonEmptyAtom(d)
  /\ t.allowedPathPrefixes.kind = "array"
  /\ Len(t.allowedPathPrefixes.items) >= 1
  /\ \A p \in Range(t.allowedPathPrefixes.items) : p # NotStrChars /\ Len(p) >= 1

LaterDuplicatesReported ==
  \A j \in TaskIdx :
     (HasStrId(PlanTasks[j]) /\ \E i \in 1..(j - 1) : HasStrId(PlanTasks[i]) /\ PlanTasks[i].id = PlanTasks[j].id)
       => \E e \in Range(planOut.errors) : e.at = "tasks.id" /\ e.i = j - 1 /\ e.message = "duplicate task id"

CycleErrors == {e \in Range(planOut.errors) : e.message = "cycle detected at task"}

\* the dependsOn graph over task ids: an edge from the id of every task to
\* each id that task depends on
IdEdges ==
  UNION {{<<PlanTasks[i].id, d>> : d \in DeclaredDeps(PlanTasks[i])} : i \in {k \in TaskIdx : HasStrId(PlanTasks[k])}}

\* the same graph where, of the tasks that share an id, only the last one
\* contributes edges
LastTaskEdges ==
  UNION {{<<id, d>> : d \in DeclaredDeps(TaskById(PlanTasks, id))} : id \in KnownIds(PlanTasks)}

OnCycle(id, edges) ==
  id \in ReachableIn({e[2] : e \in {x \in edges : x[1] = id}}, edges, Cardinality(edges))

HasCycle(edges) == \E e \in edges : OnCycle(e[1], edges)

\* C11 as stated: validatePlan reports a cycle error iff the dependsOn graph
\* over task ids contains a cycle (a self-dependency included), and every
\* cycle error names a task that lies on a cycle.
C11_CycleReported ==
  (planOut.called /\ planIn.isObj /\ planIn.tasksIsArray) =>
     /\ HasCycle(IdEdges) <=> (CycleErrors # {})
     /\ \A e \in CycleErrors : OnCycle(e.id, IdEdges)

\* the unknown-dependency errors validatePlan returned
UnknownDepErrors == {e \in Range(planOut.errors) : e.message = "unknown task id"}

\* the dependsOn entries, by JavaScript index of task and of entry, that
\* name no task
UnresolvedDeps ==
  UNION {{<<i - 1, j - 1>> : j \in {k \in 1..Len(DepsOf(PlanTasks[i])) :
                                      DepsOf(PlanTasks[i])[k] \notin KnownIds(PlanTasks)}} :
         i \in {k \in TaskIdx : HasStrId(PlanTasks[k])}}

\* errors of the plan's own fields and of the task fields other than id and
\* dependsOn, duplicate ids and entries that are not objects
OtherStructuralErrors ==
  {e \in Range(planOut.errors) :
     \/ e.at \in {"version", "intent", "tasks.title", "tasks.kind", "tasks.allowedPathPrefixes", "tasks.prompt"}
     \/ e.message \in {"duplicate task id", "expected object"}}

----------------------------------------------------------------------------
(* Claims about the run lifecycle (checked under Spec).                    *)

\* planned -> executing -> verifying -> {succeeded, failed}
StatusRank(status) ==
  CASE status = "planned" -> 0
    [] status = "executing" -> 1
    [] status = "verifying" -> 2
    [] OTHER -> 3

Terminal(status) == status \in {"succeeded", "failed"}

\* C4: over any sequence of plan, exec, verify and run commands on one run,
\* the persisted status never moves backwards along planned -> executing ->
\* verifying -> {succeeded, failed}, and once it is succeeded or failed it
\* never changes again.
C4_StatusOnlyMovesForward ==
  [][runJson.exists =>
       /\ StatusRank(runJson'.status) >= StatusRank(runJson.status)
       /\ (Terminal(runJson.status) => runJson'.status = runJson.status)]_vars

\* the reasons for which execRun throws
ExecRunErrors ==
  {"missing plan", "worktree", "cycle", "provider", "nonstring", "ownership", "malformed", "check", "apply"}

\* exec or run has ended by re-raising the error execRun threw
ExecAborted ==
  /\ proc.cmd \in {"exec", "run"}
  /\ proc.pc = "idle"
  /\ proc.exit = "error"
  /\ proc.error \in ExecRunErrors

\* C5: when execRun has thrown (missing plan, worktree error, cycle, provider
\* error, non-string patch, ownership violation, malformed patch, apply
\* failure) and the command has re-raised the error, no task after the
\* failing one was given to the provider, the persisted run has status failed
\* with endedAt stamped, and report.md was rendered from the files as they
\* are then.
C5_ExecFailureMarksFailed ==
  ExecAborted =>
    /\ runJson.exists
    /\ runJson.status = "failed"
    /\ runJson.endedAt
    /\ reportMd = [exists |-> TRUE, run |-> runJson, plan |-> planJson, applyResult |-> applyJson,
                   verifySummary |-> verifySummaryJson]
    /\ IF proc.failedTask = "none" THEN generated = <<>>
       ELSE /\ Len(generated) = proc.idx
            /\ generated[Len(generated)] = proc.failedTask
            /\ \A i \in (proc.idx + 1)..Len(proc.ordered) : proc.ordered[i].id \notin Range(generated)

\* an exec aborted by an ownership violation in the first of two tasks
C5_Witness ==
  /\ ExecAborted
  /\ proc.error = "ownership"
  /\ Len(proc.ordered) = 2
  /\ generated = <<proc.ordered[1].id>>
  /\ runJson.status = "failed"

\* C6: when runVerify returned ok = false or threw, in exec --commit, verify
\* or run, the command ends with the persisted status failed.
C6_VerifyFailureMarksFailed ==
  (proc.pc = "idle" /\ proc.verify \in {"notok", "throws"}) => runJson.status = "failed"

\* C7: in the order execRun processes the tasks, every task comes after all
\* the tasks in its dependsOn; generatePatch is called for the tasks in that
\* order, one at a time, and only once every earlier task of the order (its
\* dependencies among them) has been applied with ok = true.
C7_DependencyOrder ==
  /\ \A i \in 1..Len(proc.ordered) :
       \A d \in Range(DepsOf(proc.ordered[i])) : \E j \in 1..(i - 1) : proc.ordered[j].id = d
  /\ \A i \in 1..Len(generated) :
       /\ i <= Len(proc.ordered)
       /\ generated[i] = proc.ordered[i].id
       /\ Len(proc.applyResult.tasks) >= i - 1
       /\ \A j \in 1..(i - 1) : proc.applyResult.tasks[j] = Entry(proc.ordered[j].id, TRUE, "none")

\* the plan lists b, which depends on a, before a; both were generated, a first
C7_Witness ==
  /\ Len(planJson.tasks) = 2
  /\ planJson.tasks[1].id = "b"
  /\ generated = <<"a", "b">>
  /\ Len(proc.applyResult.tasks) = 2

OkEntries(tasks) == SelectSeq(tasks, LAMBDA e : e.ok)

\* execRun threw inside the task loop, while processing proc.failedTask
LoopAborted ==
  /\ proc.cmd \in {"exec", "run"}
  /\ proc.pc \in {"catch", "idle"}
  /\ proc.failedTask # "none"

\* C8: whenever exec aborts in the task loop after k >= 1 tasks were applied
\* (the provider call for task k+1 throwing included), applied.json exists
\* and lists those k tasks with ok = true.
C8_AppliedJsonAfterEveryTask ==
  (LoopAborted /\ Len(OkEntries(proc.applyResult.tasks)) >= 1) =>
    /\ applyJson.exists
    /\ OkEntries(applyJson.tasks) = OkEntries(proc.applyResult.tasks)

\* the four ways a task fails once the provider has returned
TaskFailures == {"nonstring", "ownership", "malformed", "check", "apply"}

\* C9: when a task fails because the provider returned a non-string patch,
\* the patch violates ownership, the patch is malformed, or git apply fails
\* (its check or the apply itself), applied.json holds, from the moment
\* execRun throws, the entries of the tasks applied before it followed by
\* {id, patchPath, ok = false, error} for the failing task, and the command
\* exits non-zero.
C9_FailedTaskRecorded ==
  (LoopAborted /\ proc.error \in TaskFailures) =>
    /\ applyJson.exists
    /\ applyJson.tasks = proc.applyResult.tasks
    /\ Len(applyJson.tasks) = proc.idx
    /\ applyJson.tasks[proc.idx] = Entry(proc.failedTask, FALSE, proc.error)
    /\ \A j \in 1..(proc.idx - 1) : applyJson.tasks[j] = Entry(proc.ordered[j].id, TRUE, "none")
    /\ (proc.pc = "idle" => proc.exit = "error")

\* git apply failed on the second task, after the first was applied
C9_Witness ==
  /\ LoopAborted
  /\ proc.pc = "idle"
  /\ proc.error = "apply"
  /\ Len(applyJson.tasks) = 2
  /\ applyJson.tasks[1].ok

----------------------------------------------------------------------------
(* Claims about runVerify (checked under SpecVerify).                      *)

VerifyReturned == verifyOut.called /\ ~verifyOut.threw

\* ok is the conjunction over the summary's commands of exitCode = 0
OkIsAndOfExitCodes(summary) ==
  summary.ok <=> \A i \in 1..Len(summary.commands) : summary.commands[i].exitCode = 0

ManualMode == verifyIn.config.defined /\ verifyIn.config.mode = "manual"

\* the commands of the verify configuration
ConfiguredCommands == IF verifyIn.config.commandsIsArray THEN verifyIn.config.items ELSE <<>>

\* the summary has one entry per given command, in the same order
EntriesAre(summary, commands) ==
  /\ Len(summary.commands) = Len(commands)
  /\ \A i \in 1..Len(commands) :
       summary.commands[i].name = commands[i].name /\ summary.commands[i].command = commands[i].command

\* C14: in manual mode runVerify spawns exactly the configured commands, in their order, whatever the
\* exit codes of the earlier ones (with the helper it hands exactly that list over), and the summary it
\* builds has one entry per configured command in the same order
C14_ManualRunsEveryCommand ==
  (verifyOut.called /\ ManualMode) =>
    /\ verifyOut.commands = ConfiguredCommands
    /\ verifyIn.kernel = "on" => verifyOut.request = ConfiguredCommands /\ verifyOut.ran = <<>>
    /\ verifyIn.kernel = "off" =>
         /\ verifyOut.ran = [i \in 1..Len(ConfiguredCommands) |-> ConfiguredCommands[i].command]
         /\ ~verifyOut.threw => EntriesAre(verifyOut.summary, ConfiguredCommands)

\* a manual verify of two commands ran both although the first one failed
C14_Witness ==
  /\ VerifyReturned
  /\ ManualMode
  /\ verifyIn.kernel = "off"
  /\ Len(ConfiguredCommands) = 2
  /\ verifyOut.summary.commands[1].exitCode # 0
  /\ Len(verifyOut.ran) = 2

AutoMode == ~ManualMode

\* the scripts object detectAutoCommands reads
ManifestScripts ==
  IF verifyIn.manifest.kind = "parsed" /\ verifyIn.manifest.scriptsIsObj
  THEN verifyIn.manifest.scripts ELSE NoManifest.scripts

\* the names of the resolved commands, in order
CommandNames == [i \in 1..Len(verifyOut.commands) |-> verifyOut.commands[i].name]

\* C15 as stated: in auto mode the command list is the subsequence of (lint, test, build) of the hooks
\* declared in package.json's scripts, and an empty list gives a summary with no commands and ok = true
C15_DeclaredHooks ==
  (verifyOut.called /\ AutoMode) =>
    /\ CommandNames = SelectSeq(HookNames, LAMBDA k : ManifestScripts[k].kind # "absent")
    /\ (verifyOut.commands = <<>> /\ verifyIn.kernel = "off") =>
         VerifyReturned /\ verifyOut.summary.commands = <<>> /\ verifyOut.summary.ok

\* C15, amended: in auto mode the command list is the subsequence of (lint, test, build) of the hooks
\* whose script is a string that is not blank, each run as "<runCmd> <hook>"; with no manifest, an
\* unparsable manifest or no such hook the list is empty and the local summary has no commands and ok = true
C15_NonBlankHooks ==
  (verifyOut.called /\ AutoMode) =>
    /\ CommandNames =
         SelectSeq(HookNames, LAMBDA k : ManifestScripts[k].kind = "string" /\ \E i \in 1..Len(ManifestScripts[k].text) : ManifestScripts[k].text[i] # " ")
    /\ \A i \in 1..Len(verifyOut.commands) :
         verifyOut.commands[i].command \in {"npm run " \o verifyOut.commands[i].name, "pnpm " \o verifyOut.commands[i].name}
    /\ (verifyIn.manifest.kind # "parsed" \/ \A k \in {"lint", "test", "build"} : ManifestScripts[k].kind = "absent") =>
         verifyOut.commands = <<>>
    /\ (verifyOut.commands = <<>> /\ verifyIn.kernel = "off") =>
         VerifyReturned /\ verifyOut.summary.commands = <<>> /\ verifyOut.summary.ok

\* an auto verify ran lint and build, in that order, for a manifest that declares lint, build and start
\* and gives test a blank script
C15_Witness ==
  /\ VerifyReturned
  /\ AutoMode
  /\ verifyIn.kernel = "off"
  /\ ManifestScripts["test"] = ScriptString(<<" ">>)
  /\ ManifestScripts["start"].kind = "string"
  /\ CommandNames = <<"lint", "build">>
  /\ Len(verifyOut.summary.commands) = 2

----------------------------------------------------------------------------
(* Claims about run creation (checked under SpecCreate).                   *)

\* the run directory of the given id
DirOf(dirs, runId) == CHOOSE d \in dirs : d.id = runId

\* C16: an initRun call for an id whose run.json exists throws and leaves the runs directory as it was;
\* any other initRun call writes a run with status planned and leaves every other run directory as it
\* was; picking an id writes nothing
C16_CreateFailsFast ==
  [][\A p \in 1..2 :
       /\ (creators[p].pc = "picked" /\ creators'[p].pc # "picked") =>
            IF RunExists(runsDir, creators[p].runId)
            THEN creators'[p].pc = "threw" /\ runsDir' = runsDir
            ELSE /\ creators'[p].pc = "created"
                 /\ RunExists(runsDir', creators[p].runId)
                 /\ DirOf(runsDir', creators[p].runId).run.status = "planned"
                 /\ DirOf(runsDir', creators[p].runId).intent = creators[p].intent
                 /\ \A d \in runsDir : d.id # creators[p].runId => d \in runsDir'
       /\ creators[p].pc = "start" /\ creators'[p].pc # "start" => runsDir' = runsDir]_vars

\* both plan commands picked the same id; the first created the run and the second failed on it
C16_Witness ==
  /\ creators # <<>>
  /\ creators[1].pc = "created"
  /\ creators[2].pc = "threw"
  /\ creators[2].runId = creators[1].runId
  /\ DirOf(runsDir, creators[1].runId).intent = "one"

----------------------------------------------------------------------------
(* Claims about ensureWorktree (checked under SpecWorktree).               *)

WtCalled == wtOut.calls > 0
WtReturned == WtCalled /\ wtOut.threw = "none"

\* C17: the path ensureWorktree returns, in which patches are applied and verify commands run, is
\* never repoRoot nor a path inside it: for every such worktreePath the call throws and leaves the
\* branch and the path as they were
C17_WorktreeOutsideRepo ==
  (WtCalled /\ Within(wtIn.repoRoot, wtIn.worktreePath)) =>
    /\ wtOut.threw = "inside repo root"
    /\ wtFs = wtOut.before

\* the call passed assertExternalWorktreePath
WtPassedCheck == WtCalled /\ wtOut.threw # "inside repo root"

\* what every call of ensureWorktree does to the branch and to a path that is a working copy; the
\* call returns unless git branch itself failed, and a second call after a first that returned
\* changes nothing
WtBranchAndReuse ==
  /\ wtOut.before.branch # "none" => wtFs.branch = wtOut.before.branch
  /\ wtOut.before.branch = "none" => wtFs.branch = IF wtOut.threw = "git branch" THEN "none" ELSE "base"
  /\ wtOut.before.path = "worktree" =>
       /\ wtOut.threw \in {"none", "git branch"}
       /\ wtFs.path = "worktree" /\ wtFs.parentMade = wtOut.before.parentMade
  /\ (wtOut.calls = 2 /\ wtOut.before.path = "worktree" /\ wtOut.before.branch # "none") =>
       WtReturned /\ wtFs = wtOut.before

\* C18 as stated: ensureWorktree creates the branch at baseSha only if there is none and never moves
\* one; a path that is a working copy is returned as it is; for a path that exists and is no working
\* copy the call fails and has created nothing
C18_FailsCreatingNothing ==
  WtPassedCheck =>
    /\ WtBranchAndReuse
    /\ wtOut.before.path = "other" => wtOut.threw # "none" /\ wtFs = wtOut.before

\* C18, amended: as stated, except that for a path that exists and is no working copy the call fails
\* without creating a worktree or touching the path, after it has created the branch if there was none
C18_FailsCreatingNoWorktree ==
  WtPassedCheck =>
    /\ WtBranchAndReuse
    /\ wtOut.before.path = "other" =>
         /\ wtOut.threw # "none"
         /\ wtFs.path = "other" /\ wtFs.parentMade = wtOut.before.parentMade
         /\ wtOut.threw = "not a git worktree" => wtFs.branch # "none"

\* the call failed on a path that is no working copy, and left the branch it had just created
C18_Witness ==
  /\ wtOut.threw = "not a git worktree"
  /\ wtOut.before.branch = "none"
  /\ wtFs.branch = "base"
  /\ wtFs.path = "other"

----------------------------------------------------------------------------
(* Claims about the kernel bridge (checked under SpecKernel).              *)

KernelCalled == bridgeOut.calls > 0

\* no helper binary is found, or the one found cannot be run or fails whatever it is asked
HelperUnusable == findKernelBinary(bridgeIn).bin = "none" \/ bridgeIn.health # "ok"

\* C19: with ECC_KERNEL=rust a missing or non-functional helper makes runKernel throw an error that
\* carries the remediation instructions; in auto mode a missing or non-functional helper makes
\* runKernel return null without an error; with ECC_KERNEL=node nothing is looked up or spawned
C19_ModeSelection ==
  KernelCalled =>
    /\ (getKernelMode(bridgeIn.raw) = "rust" /\ HelperUnusable) =>
         bridgeOut.last.kind = "throws" /\ bridgeOut.last.remediation
    /\ (getKernelMode(bridgeIn.raw) = "auto" /\ HelperUnusable) => bridgeOut.last.kind = "null"
    /\ getKernelMode(bridgeIn.raw) = "node" =>
         /\ bridgeOut.last.kind = "null"
         /\ bridgeOut.looked = <<>> /\ ~bridgeOut.probed /\ ~bridgeOut.spawned

\* C20: a runKernel call that spawned the helper throws with the captured stderr and stdout when the
\* exit status is not zero, throws when the status is zero and stdout is not a JSON document (empty
\* output included), and otherwise returns the document parsed from stdout
C20_DocumentOrFatal ==
  (KernelCalled /\ bridgeOut.spawned /\ ~bridgeOut.res.error) =>
    IF bridgeOut.res.status # 0
    THEN /\ bridgeOut.last.kind = "throws"
         /\ bridgeOut.last.stdout = TrimEnd(TrimStart(bridgeOut.res.stdout))
         /\ bridgeOut.last.stderr = TrimEnd(TrimStart(bridgeOut.res.stderr))
    ELSE IF JsonParses(bridgeOut.res.stdout) THEN bridgeOut.last = KernelValue("document")
    ELSE bridgeOut.last.kind = "throws"

----------------------------------------------------------------------------
(* Claims about ecc init (checked under SpecInit). *)

\* an invocation of init that found a valid config and a lock, asked for
\* another backend and other packs while the catalog's digest had changed
InitRepeated ==
  /\ initOut.calls >= 2
  /\ initOut.threw = "none"
  /\ initOut.existed

\* C21: init is idempotent: no invocation of init, whatever its --backend
\* and --packs, changes a config file that exists or a registry lock that
\* exists, so the config stays what the first invocation wrote and the lock
\* keeps its digest.
C21_InitIdempotent ==
  [][/\ eccDir.config.exists => eccDir'.config = eccDir.config
     /\ eccDir.lock.exists => eccDir'.lock = eccDir.lock]_vars

C21_Witness ==
  /\ InitRepeated
  /\ eccDir.config.createdAt = 1
  /\ eccDir.lock.lockedAt = 1
  /\ initOut.backend # eccDir.config.backend
  /\ initOut.selected # eccDir.config.packs
  /\ initOut.digest # eccDir.lock.digest

----------------------------------------------------------------------------
(* Claims about commit, the end of a run and the report (checked under     *)
(* Spec).                                                                  *)

\* this step commits: the branch tip moves, or applied.json gains its commit entry
CommitMade == worktree'.tip # worktree.tip \/ (applyJson'.commit /\ ~applyJson.commit)

\* exec --commit or run --commit has its passing verify summary in hand
VerifiedOkWithCommit ==
  /\ proc.cmd \in {"exec", "run"}
  /\ proc.commit
  /\ proc.pc = "verified"
  /\ proc.verify = "ok"
  /\ verifySummaryJson.exists /\ verifySummaryJson.ok

\* C22: a commit (in the worktree and as the commit entry of applied.json)
\* is made only by exec --commit or run --commit once runVerify has
\* returned ok = true, while the status is still verifying; and such a
\* command moves the status to succeeded only with the commit recorded.
C22_CommitOnlyAfterVerify ==
  [][/\ CommitMade => VerifiedOkWithCommit /\ runJson.status = "verifying"
     /\ (proc.cmd \in {"exec", "run"} /\ proc.commit /\ runJson'.status = "succeeded" /\ runJson.status # "succeeded")
          => (applyJson'.commit /\ worktree'.tip = worktree.files)]_vars

C22_Witness ==
  /\ proc.pc = "idle"
  /\ proc.cmd \in {"exec", "run"}
  /\ proc.commit
  /\ proc.verify = "ok"
  /\ applyJson.commit
  /\ runJson.status = "succeeded"
  /\ worktree.tip # NoWorktree.tip

\* a run command has ended after every task applied and runVerify returned ok = true
FullRunPassed ==
  /\ proc.cmd = "run"
  /\ proc.pc = "idle"
  /\ proc.verify = "ok"
  /\ applyJson.exists
  /\ \A k \in 1..Len(applyJson.tasks) : applyJson.tasks[k].ok

\* cleanup was asked for: --commit without --keep-worktree
CleanupRequested == proc.commit /\ ~proc.keepWorktree

\* C23: a full run in which every task applies and verification passes
\* ends with persisted status succeeded and endedAt stamped and, unless
\* cleanup was asked for, with a recorded worktree path that exists.
C23_FullRunSucceeds ==
  FullRunPassed =>
    /\ runJson.status = "succeeded"
    /\ runJson.endedAt
    /\ ~CleanupRequested => (runJson.worktreePath # "" /\ worktree.exists)

\* a plan, exec, verify or run command has terminated
CommandEnded == proc.pc = "idle" /\ proc.cmd # "none"

\* report.md is the rendering of the four artifacts as they are on disk
ReportMatchesDisk ==
  /\ reportMd.exists
  /\ reportMd = writeReport(runJson, planJson, applyJson, verifySummaryJson, reportMd).reportMd

\* C24: whenever a plan, exec, verify or run command terminates, report.md
\* equals the rendering of the run.json, plan.json, applied.json and verify
\* summary on disk at that moment, final status and final worktree path
\* included.
C24_ReportMatchesDisk == CommandEnded => ReportMatchesDisk

\* exec is past the step that follows a returning execRun: every task of the run applied
ExecApplied ==
  /\ proc.cmd = "exec"
  /\ \/ proc.pc \in {"verify", "verified"}
     \/ proc.pc = "idle" /\ proc.exit # "none" /\ proc.error \in {"none", "verify", "commit"}

\* C25: once exec has applied all tasks of a run, with or without --commit,
\* the persisted status has become verifying (and from there at most
\* succeeded or failed); it has not remained executing.
C25_VerifyingAfterExec == ExecApplied => runJson.status \in {"verifying", "succeeded", "failed"}

----------------------------------------------------------------------------
(* Further claims about applyPatch (checked under SpecPatch). *)

\* the file each matching `diff --git` header of the patch names, as written
HeaderFiles ==
  {IF HeaderMatch(l.text).bPath = DevNull THEN HeaderMatch(l.text).aPath ELSE HeaderMatch(l.text).bPath :
     l \in {x \in Range(patchIn.patch) : x.kind = "diffgit" /\ HeaderMatch(x.text).matched}}

\* a leading slash or a drive letter
IsAbsolutePath(p) == StartsWith(ReplaceBackslash(p), Slash) \/ IsDriveLetterPath(ReplaceBackslash(p))

\* a ".." segment anywhere in the path
HasTraversalSegment(p) == \E k \in 1..Len(SplitSlash(ReplaceBackslash(p))) : SplitSlash(ReplaceBackslash(p))[k] = DotDot

RecordedInvalid(p) == \E k \in 1..Len(patchOut.violations) : patchOut.violations[k] = [why |-> "invalid", path |-> p]

\* applyPatch has returned from a call with some prefix and a patch that is not blank
OwnershipReached == PatchReturned /\ patchIn.allowed # <<>> /\ ~PatchIsBlank(patchIn.patch)

\* C26: every touched path that is absolute or has a ".." segment anywhere
\* is recorded as an invalid path, and the patch fails the ownership check.
C26_UnsafePathsRecordedInvalid ==
  OwnershipReached =>
    \A f \in HeaderFiles :
      (IsAbsolutePath(f) \/ HasTraversalSegment(f)) =>
        /\ patchOut.outcome = "throw"
        /\ patchOut.error = "ownership"
        /\ RecordedInvalid(f)

\* applyPatch has returned from a call with an empty allowedPathPrefixes list
EmptyPrefixesCall == PatchReturned /\ patchIn.allowed = <<>>

NormalOf(f) == normalizeRepoPath(f).path

AuthorizedFile(f) ==
  \E i \in 1..Len(patchIn.allowed) : AuthorizedBy(NormalOf(f), AppendIfMissingForm(patchIn.allowed[i]))

\* the header files that are invalid paths or that no prefix authorizes
ViolatingFiles == {f \in HeaderFiles : ~normalizeRepoPath(f).valid \/ ~AuthorizedFile(f)}

\* the violation line the error shows for such a file
ViolationLine(f) ==
  IF normalizeRepoPath(f).valid THEN [why |-> "unauthorized", path |-> NormalOf(f)]
  ELSE [why |-> "invalid", path |-> f]

----------------------------------------------------------------------------
(* Claims about execRun on an edited plan (checked under SpecExec). *)

\* the dependency graph of plan.json: an edge from a task id to each id it depends on
PlanFileEdges == UNION {{<<t.id, d>> : d \in Range(DepsOf(t))} : t \in Range(planJson.tasks)}

\* plan.json still has distinct task ids and dependencies that resolve
PlanFileWellFormed ==
  /\ \A j, k \in 1..Len(planJson.tasks) : j # k => planJson.tasks[j].id # planJson.tasks[k].id
  /\ \A e \in PlanFileEdges : e[2] \in AllIds(planJson.tasks)

\* execRun of an exec command has called topoSortTasks
SortCalled ==
  /\ proc.cmd = "exec"
  /\ proc.pc # "execRun"
  /\ proc.error \notin {"unknown runId", "missing plan", "worktree", "missing run.json"}

----------------------------------------------------------------------------
(* Claims about what a run keeps and where commands leave it (checked     *)
(* under Spec).                                                           *)

\* C31: once run.json exists, no step of a plan, exec, verify or run
\* command changes the base (repoRoot, branch, sha) stored in it.
C31_BaseImmutable ==
  [][runJson.exists => (runJson'.exists /\ runJson'.base = runJson.base)]_vars

\* a run created inside a git repository was executed and verified to the end
C31_Witness ==
  /\ runJson.exists
  /\ runJson.base = Base("repo", "main", "sha1")
  /\ runJson.status = "succeeded"
  /\ runJson.worktreePath = WtPath
  /\ applyJson.exists
  /\ verifySummaryJson.exists

\* a run command has ended, the run existing
RunCommandEnded == proc.cmd = "run" /\ proc.pc = "idle" /\ runJson.exists

\* C34: every run command that created its run and has ended, normally,
\* through exit(1) or through a thrown error, leaves run.json in a terminal
\* status, succeeded or failed, never in planned, executing or verifying.
C34_RunCommandEndsTerminal == RunCommandEnded => Terminal(runJson.status)

\* C35: in every run.json, after any sequence of commands, endedAt is
\* present exactly when the status is succeeded or failed.
C35_EndedAtIffTerminal == runJson.exists => (runJson.endedAt <=> Terminal(runJson.status))

\* C36: in every applied.json an exec wrote, the task ids are pairwise
\* distinct, the entries follow the topological order the tasks are executed
\* in, every entry before the last has ok = true, and an entry with
\* ok = false is the last one and carries an error.
C36_AppliedJsonShape ==
  applyJson.exists =>
    LET entries == applyJson.tasks
        order == topoSortTasks(planJson.tasks).out
    IN  /\ \A j, k \in 1..Len(entries) : j # k => entries[j].id # entries[k].id
        /\ Len(entries) <= Len(order)
        /\ \A k \in 1..Len(entries) : entries[k].id = order[k].id
        /\ \A k \in 1..Len(entries) : k < Len(entries) => entries[k].ok
        /\ \A k \in 1..Len(entries) : ~entries[k].ok => (k = Len(entries) /\ entries[k].error \notin {"none", ""})
        /\ \A k \in 1..Len(entries) : entries[k].ok => entries[k].error = "none"

\* an exec applied the patch of the first task and recorded the failure of the second
C36_Witness ==
  /\ applyJson.exists
  /\ Len(applyJson.tasks) = 2
  /\ applyJson.tasks[1].ok
  /\ ~applyJson.tasks[2].ok
  /\ applyJson.tasks[2].error # "none"
  /\ proc.cmd = "exec"

\* C37: whenever run.json exists, in status planned or a later one, the run
\* directory holds a plan.json that validatePlan accepts; a plan stage that
\* failed leaves no planned run without a plan.
C37_RunHasValidPlan ==
  runJson.exists => (planJson.exists /\ validatePlan(PlanOf(planJson.tasks)) = <<>>)

----------------------------------------------------------------------------
(* Claims about two runs side by side (checked under SpecTwoRuns). *)

RunRootOf(i) == runRoot(runners[i].projectRoot, runners[i].runId)
DefaultWorktreeOf(i) == defaultWorktreePath(runners[i].projectRoot, runners[i].runId, TmpWorktrees)

DistinctRunIds == runners[1].runId # runners[2].runId

\* the files that belong to run i: its artifact directory and its worktree
OwnedBy(i, p) == Within(RunRootOf(i), p) \/ Within(DefaultWorktreeOf(i), p)

\* the two runs have disjoint artifact directories, worktree paths and branches
DisjointPlaces ==
  /\ ~Within(RunRootOf(1), RunRootOf(2)) /\ ~Within(RunRootOf(2), RunRootOf(1))
  /\ ~Within(DefaultWorktreeOf(1), DefaultWorktreeOf(2)) /\ ~Within(DefaultWorktreeOf(2), DefaultWorktreeOf(1))
  /\ \A v, w \in disk.worktrees : (v.repoRoot = w.repoRoot /\ v.path # w.path) => v.branch # w.branch

\* C32: two runs with distinct run ids have disjoint artifact directories,
\* worktree branches and default worktree paths, and under every
\* interleaving of their plan, exec and verify steps no file that belongs
\* to one run was written by a step of the other.
C32_NoInterference ==
  DistinctRunIds =>
    /\ DisjointPlaces
    /\ \A f \in disk.files : \A j \in 1..2 : f.by # j => ~OwnedBy(j, f.path)


\* run i has a worktree path that ensureWorktree returned
HasWorktree(i) == runners[i].pc \in {"task", "executed", "verified"}

\* C40: the path ensureWorktree returned to a run is a working copy of the
\* run's repository on the run's branch, and two runs never apply their
\* patches in the same worktree, also when they have the same run id in
\* two repositories whose directories have the same name.
C40_WorktreeOwnedByRun ==
  /\ \A i \in 1..2 :
       HasWorktree(i) =>
         /\ WorktreeAt(disk, runners[i].worktreePath).repoRoot = runners[i].projectRoot
         /\ WorktreeAt(disk, runners[i].worktreePath).branch = runners[i].runId
  /\ (HasWorktree(1) /\ HasWorktree(2)) => runners[1].worktreePath # runners[2].worktreePath

----------------------------------------------------------------------------
(* Claims about two plan commands racing for a run id (checked under      *)
(* SpecRace).                                                             *)

RunJsonOf(dirs, runId) == (CHOOSE d \in dirs : d.id = runId)

\* C33: the probe of ensureUniqueRunId and the run.json check of initRun are
\* not repeated at the write: a plan command that passed both writes its
\* run.json whatever happened to the run directory since, so two commands
\* asking for the same id can both pass them and both write run.json for
\* the same run id (the interleaving is C33_Witness).
C33_WriteFollowsStaleCheck ==
  [][\A p \in 1..2 :
       (creators[p].pc = "made" /\ creators'[p].pc # "made") =>
         /\ creators'[p].pc = "created"
         /\ RunJsonOf(runsDir', creators[p].runId).run = initRun
         /\ RunJsonOf(runsDir', creators[p].runId).intent = creators[p].intent]_vars

\* both commands asked for the same id, picked the same run id, and both wrote its run.json
C33_Witness ==
  /\ creators[1].requested = creators[2].requested
  /\ creators[1].runId = creators[2].runId
  /\ creators[1].pc = "created"
  /\ creators[2].pc = "created"
  /\ RunExists(runsDir, creators[1].runId)

----------------------------------------------------------------------------
(* Claims about what follows an accepted plan (checked under SpecPlan). *)

PlanAccepted == planOut.called /\ planOut.errors = <<>>

\* the list holds every task of the plan exactly once
PermutationOfPlan(out) ==
  /\ Len(out) = Len(planIn.tasks)
  /\ \A k \in 1..Len(planIn.tasks) : Cardinality({j \in 1..Len(out) : out[j] = planIn.tasks[k]}) = 1

\* C38: every plan validatePlan accepts, also one whose tasks omit
\* dependsOn, goes through the later stages without an exception:
\* generatePlan writes plan.json and plan.md (renderPlanMd does not throw)
\* and topoSortTasks returns a permutation of the plan's tasks.
C38_AcceptedPlanIsProcessed ==
  PlanAccepted =>
    /\ ~renderPlanMdThrows(planIn)
    /\ ~topoSortTasks(planIn.tasks).threw
    /\ PermutationOfPlan(topoSortTasks(planIn.tasks).out)

----------------------------------------------------------------------------
(* Claims about the output files of runVerify (checked under SpecVerify). *)

\* runVerify ran the commands itself
RanLocally == verifyOut.called /\ verifyIn.kernel = "off"

\* C39: within one verify run the commands at different positions of the
\* list are captured to different output files, so the output of every
\* command that ran is still in its file afterwards: none was overwritten
\* by a command whose name gives the same file name.
C39_OutputsNotOverwritten ==
  RanLocally =>
    /\ Cardinality({o.file : o \in verifyOut.outputs}) = Len(verifyOut.ran)
    /\ \A i \in 1..Len(verifyOut.ran) : \E o \in verifyOut.outputs : o.holds = i

====
